---- MODULE Spec2Model ----
(***************************************************************************)
(* A model of groq-server-sdk: the Guardrails moderation engine            *)
(* (src/Guardrails.js) and the request handlers of ChatServer              *)
(* (src/ChatServer.js) with the ChatClient they call.                      *)
(*                                                                         *)
(* Texts are sequences of characters over a small alphabet.  A pattern is  *)
(* a literal word with the regular-expression features the code relies on: *)
(* the flags g and i, a leading ^ and surrounding \b.  A regular           *)
(* expression object carries its lastIndex, which RegExp.prototype.test    *)
(* reads and writes when the g flag is set.                                *)
(***************************************************************************)
EXTENDS Integers, Sequences, FiniteSets, TLC

\* ------------------------------------------------------------------ bounds

\* Longest text handed to the engine.
MaxLen == 2

\* ------------------------------------------------------------------ values

\* "k" stands for a harmful word, "d" for a profane one, "K" is the upper
\* case of "k", " " is whitespace (the only non-word character).
Alphabet == {"k", "K", "d", " "}

Lower(c) == IF c = "K" THEN "k" ELSE c

IsWordChar(c) == c # " "

Strings == UNION {[1..n -> Alphabet] : n \in 0..MaxLen}

Str(s) == [type |-> "string", chars |-> s]

\* Values that are not strings: null and a number.
NullValue == [type |-> "null", chars |-> <<>>]
NumberValue == [type |-> "number", chars |-> <<"7">>]

NonStrings == {NullValue, NumberValue}

Values == {Str(s) : s \in Strings} \cup NonStrings

\* The JavaScript value null where a field holds a string.
Null == "null"

Has(o, f) == f \in DOMAIN o

\* { ...a, ...b }
Merge(a, b) == [f \in DOMAIN a \cup DOMAIN b |-> IF f \in DOMAIN b THEN b[f] ELSE a[f]]

\* The empty object {}.
EmptyObject == [f \in {} |-> TRUE]

\* A field that holds either null or an array.
NullList == [null |-> TRUE, items |-> <<>>]
List(s) == [null |-> FALSE, items |-> s]

\* ------------------------------------------------------------------ patterns

\* kind "regex": a RegExp object /src/ with flags g, i; kind "string": the
\* source text of one.  anch: the source starts with ^; wb: it is wrapped in \b.
Regex(src, anch, wb, g, i) ==
  [kind |-> "regex", src |-> src, anch |-> anch, wb |-> wb, g |-> g, i |-> i]

StringPattern(src, anch, wb) ==
  [kind |-> "string", src |-> src, anch |-> anch, wb |-> wb, g |-> FALSE, i |-> FALSE]

\* The source text is a regular expression: a "(" that nothing closes is a
\* syntax error, at which new RegExp throws.
ValidSyntax(p) == \A j \in 1..Len(p.src) : p.src[j] # "("

\* new RegExp(pattern, 'gi')
NewRegExpGI(p) == Regex(p.src, p.anch, p.wb, TRUE, TRUE)

\* new RegExp(pattern): what String.prototype.match makes of a string argument.
NewRegExp(p) == Regex(p.src, p.anch, p.wb, FALSE, FALSE)

CharEq(re, a, b) == IF re.i THEN Lower(a) = Lower(b) ELSE a = b

\* The regular expression re matches s at the 0-based index q.
MatchesAt(re, s, q) ==
  /\ q >= 0
  /\ q + Len(re.src) <= Len(s)
  /\ \A j \in 1..Len(re.src) : CharEq(re, re.src[j], s[q + j])
  /\ re.anch => q = 0
  /\ re.wb => /\ (q = 0 \/ ~IsWordChar(s[q]))
              /\ (q + Len(re.src) = Len(s) \/ ~IsWordChar(s[q + Len(re.src) + 1]))

MatchIndices(re, s) == {q \in 0..Len(s) : MatchesAt(re, s, q)}

Min(S) == CHOOSE x \in S : \A y \in S : x <= y

\* RegExp.prototype.exec / test on a RegExp whose lastIndex is li: the search
\* starts at lastIndex when the g flag is set, and lastIndex is left at the end
\* of the match, or at 0 when there is none.
RegExpTest(re, s, li) ==
  LET start == IF re.g THEN li ELSE 0
      hits == {q \in MatchIndices(re, s) : q >= start}
  IN IF hits = {}
       THEN [found |-> FALSE, lastIndex |-> IF re.g THEN 0 ELSE li]
       ELSE [found |-> TRUE,
             lastIndex |-> IF re.g THEN Min(hits) + Len(re.src) ELSE li]

RECURSIVE Concat(_)
Concat(chars) == IF chars = <<>> THEN "" ELSE Head(chars) \o Concat(Tail(chars))

\* The source text of a pattern.
Source(p) ==
  (IF p.anch THEN "^" ELSE "") \o (IF p.wb THEN "\\b" ELSE "") \o Concat(p.src)
    \o (IF p.wb THEN "\\b" ELSE "")

\* pattern.toString(): "/source/flags" for a RegExp, the string itself for a string.
PatternToString(p) ==
  IF p.kind = "string" THEN Source(p)
  ELSE "/" \o Source(p) \o "/" \o (IF p.g THEN "g" ELSE "") \o (IF p.i THEN "i" ELSE "")

\* ------------------------------------------------------------------ constructor

DefaultMaxMessageLength == 10000
DefaultMinMessageLength == 1
DefaultMaxResponseLength == 50000

\* /\b(fuck|shit|damn|hell|bitch|asshole)\b/gi, over the model's alphabet.
DefaultProfanityPatterns == <<Regex(<<"d">>, FALSE, TRUE, TRUE, TRUE)>>

\* /\b(kill|murder|suicide|bomb|terrorist|violence)\b/gi, over the model's alphabet.
DefaultHarmfulPatterns == <<Regex(<<"k">>, FALSE, TRUE, TRUE, TRUE)>>

Zeros(n) == [j \in 1..n |-> 0]

\* options.f || d for a number
OrNumber(options, f, d) == IF Has(options, f) /\ options[f] # 0 THEN options[f] ELSE d

\* options.f || d for an array or a non-empty string
OrValue(options, f, d) == IF Has(options, f) THEN options[f] ELSE d

\* options.f !== false
NotFalse(options, f) == IF Has(options, f) THEN options[f] # FALSE ELSE TRUE

\* The constructor without the trailing ...options.
ConstructorConfigKnownFields(options) ==
  Merge([maxMessageLength |-> OrNumber(options, "maxMessageLength", DefaultMaxMessageLength),
         minMessageLength |-> OrNumber(options, "minMessageLength", DefaultMinMessageLength),
         enableContentFilter |-> NotFalse(options, "enableContentFilter"),
         blockedPatterns |-> OrValue(options, "blockedPatterns", <<>>),
         allowedPatterns |-> IF Has(options, "allowedPatterns") /\ ~options.allowedPatterns.null
                               THEN options.allowedPatterns ELSE NullList,
         enableProfanityFilter |-> NotFalse(options, "enableProfanityFilter"),
         enableOutputModeration |-> NotFalse(options, "enableOutputModeration"),
         maxResponseLength |-> OrNumber(options, "maxResponseLength", DefaultMaxResponseLength),
         policies |-> OrValue(options, "policies", <<>>),
         logViolations |-> NotFalse(options, "logViolations"),
         violationAction |-> OrValue(options, "violationAction", "reject")],
        EmptyObject)

\* new Guardrails(options): this.config
ConstructorConfig(options) ==
  Merge([maxMessageLength |-> OrNumber(options, "maxMessageLength", DefaultMaxMessageLength),
         minMessageLength |-> OrNumber(options, "minMessageLength", DefaultMinMessageLength),
         enableContentFilter |-> NotFalse(options, "enableContentFilter"),
         blockedPatterns |-> OrValue(options, "blockedPatterns", <<>>),
         allowedPatterns |-> IF Has(options, "allowedPatterns") /\ ~options.allowedPatterns.null
                               THEN options.allowedPatterns ELSE NullList,
         enableProfanityFilter |-> NotFalse(options, "enableProfanityFilter"),
         enableOutputModeration |-> NotFalse(options, "enableOutputModeration"),
         maxResponseLength |-> OrNumber(options, "maxResponseLength", DefaultMaxResponseLength),
         policies |-> OrValue(options, "policies", <<>>),
         logViolations |-> NotFalse(options, "logViolations"),
         violationAction |-> OrValue(options, "violationAction", "reject")],
        options)

\* new Guardrails(options): this.profanityPatterns
ConstructorProfanityPatterns(options) ==
  OrValue(options, "profanityPatterns", DefaultProfanityPatterns)

\* new Guardrails(options): this.harmfulPatterns
ConstructorHarmfulPatterns(options) ==
  OrValue(options, "harmfulPatterns", DefaultHarmfulPatterns)

\* ------------------------------------------------------------------ checks

\* validateInput with exclusive length boundaries.
validateInputExclusive(cfg, message) ==
  IF message.type # "string"
    THEN [valid |-> FALSE, reason |-> "Message must be a string", code |-> "INVALID_TYPE"]
  ELSE IF Len(message.chars) <= cfg.minMessageLength
    THEN [valid |-> FALSE,
          reason |-> "Message too short. Minimum length: " \o ToString(cfg.minMessageLength),
          code |-> "MESSAGE_TOO_SHORT"]
  ELSE IF Len(message.chars) >= cfg.maxMessageLength
    THEN [valid |-> FALSE,
          reason |-> "Message too long. Maximum length: " \o ToString(cfg.maxMessageLength),
          code |-> "MESSAGE_TOO_LONG"]
  ELSE IF \A j \in 1..Len(message.chars) : message.chars[j] = " "
    THEN [valid |-> FALSE, reason |-> "Message cannot be empty", code |-> "EMPTY_MESSAGE"]
  ELSE [valid |-> TRUE]

\* validateInput with the blank check moved before the length checks.
validateInputBlankFirst(cfg, message) ==
  IF message.type # "string"
    THEN [valid |-> FALSE, reason |-> "Message must be a string", code |-> "INVALID_TYPE"]
  ELSE IF \A j \in 1..Len(message.chars) : message.chars[j] = " "
    THEN [valid |-> FALSE, reason |-> "Message cannot be empty", code |-> "EMPTY_MESSAGE"]
  ELSE IF Len(message.chars) < cfg.minMessageLength
    THEN [valid |-> FALSE,
          reason |-> "Message too short. Minimum length: " \o ToString(cfg.minMessageLength),
          code |-> "MESSAGE_TOO_SHORT"]
  ELSE IF Len(message.chars) > cfg.maxMessageLength
    THEN [valid |-> FALSE,
          reason |-> "Message too long. Maximum length: " \o ToString(cfg.maxMessageLength),
          code |-> "MESSAGE_TOO_LONG"]
  ELSE [valid |-> TRUE]

validateInput(cfg, message) ==
  IF message.type # "string"
    THEN [valid |-> FALSE, reason |-> "Message must be a string", code |-> "INVALID_TYPE"]
  ELSE IF Len(message.chars) < cfg.minMessageLength
    THEN [valid |-> FALSE,
          reason |-> "Message too short. Minimum length: " \o ToString(cfg.minMessageLength),
          code |-> "MESSAGE_TOO_SHORT"]
  ELSE IF Len(message.chars) > cfg.maxMessageLength
    THEN [valid |-> FALSE,
          reason |-> "Message too long. Maximum length: " \o ToString(cfg.maxMessageLength),
          code |-> "MESSAGE_TOO_LONG"]
  ELSE IF \A j \in 1..Len(message.chars) : message.chars[j] = " "
    THEN [valid |-> FALSE, reason |-> "Message cannot be empty", code |-> "EMPTY_MESSAGE"]
  ELSE [valid |-> TRUE]

\* The loop of checkBlockedPatterns over a pattern list, and the same test
\* under allowedPatterns.some(...): the patterns from j on are tested in order
\* until one succeeds.  lis holds the lastIndex of each RegExp of the list; a
\* string is compiled afresh on each test.  hit: the index of the pattern
\* that matched, 0 when none did.
\* What a call threw, in place of what it would have returned.
Threw(what) == [threw |-> what]

IsThrow(r) == Has(r, "threw")

\* The first pattern from j on whose test finds a match (0: none; -1: new
\* RegExp threw before any did), and the lastIndex of the RegExp objects after.
RECURSIVE TestPatterns(_, _, _, _)
TestPatterns(pats, lis, content, j) ==
  IF j > Len(pats) THEN [hit |-> 0, lis |-> lis]
  ELSE IF pats[j].kind = "string" /\ ~ValidSyntax(pats[j]) THEN [hit |-> -1, lis |-> lis]
  ELSE LET p == pats[j]
           t == IF p.kind = "string"
                  THEN RegExpTest(NewRegExpGI(p), content, 0)
                  ELSE RegExpTest(p, content, lis[j])
           lis2 == IF p.kind = "string" THEN lis ELSE [lis EXCEPT ![j] = t.lastIndex]
       IN IF t.found THEN [hit |-> j, lis |-> lis2]
          ELSE TestPatterns(pats, lis2, content, j + 1)

\* li: the lastIndex of the RegExp objects, [blocked, allowed, harmful].
checkBlockedPatterns(cfg, li, content) ==
  IF ~cfg.enableContentFilter THEN [res |-> [blocked |-> FALSE], li |-> li]
  ELSE LET b == TestPatterns(cfg.blockedPatterns, li.blocked, content, 1)
       IN IF b.hit = -1
            THEN [res |-> Threw("SyntaxError"), li |-> [li EXCEPT !.blocked = b.lis]]
          ELSE IF b.hit # 0
            THEN [res |-> [blocked |-> TRUE,
                           pattern |-> PatternToString(cfg.blockedPatterns[b.hit]),
                           reason |-> "Content matches blocked pattern",
                           code |-> "BLOCKED_PATTERN"],
                  li |-> [li EXCEPT !.blocked = b.lis]]
          ELSE IF ~cfg.allowedPatterns.null /\ Len(cfg.allowedPatterns.items) > 0
            THEN LET a == TestPatterns(cfg.allowedPatterns.items, li.allowed, content, 1)
                     li2 == [li EXCEPT !.blocked = b.lis, !.allowed = a.lis]
                 IN IF a.hit = -1 THEN [res |-> Threw("SyntaxError"), li |-> li2]
                    ELSE IF a.hit = 0
                      THEN [res |-> [blocked |-> TRUE,
                                     reason |-> "Content does not match any allowed pattern",
                                     code |-> "NOT_ALLOWED_PATTERN"],
                            li |-> li2]
                      ELSE [res |-> [blocked |-> FALSE], li |-> li2]
          ELSE [res |-> [blocked |-> FALSE], li |-> [li EXCEPT !.blocked = b.lis]]

\* The substrings of s that a RegExp with the g flag matches, scanning from
\* the 0-based index from: String.prototype.match with a global RegExp.
RECURSIVE GlobalMatches(_, _, _)
GlobalMatches(re, s, from) ==
  LET hits == {q \in MatchIndices(re, s) : q >= from}
  IN IF hits = {} THEN <<>>
     ELSE LET q == Min(hits)
          IN <<SubSeq(s, q + 1, q + Len(re.src))>> \o GlobalMatches(re, s, q + Len(re.src))

\* content.match(pattern): every match of a RegExp with the g flag, the first
\* match of one without; a string is compiled by new RegExp(pattern).
\* <<>> stands for null.
StringMatch(content, pattern) ==
  LET re == IF pattern.kind = "string" THEN NewRegExp(pattern) ELSE pattern
      hits == MatchIndices(re, content)
  IN IF re.g THEN GlobalMatches(re, content, 0)
     ELSE IF hits = {} THEN <<>>
     ELSE <<SubSeq(content, Min(hits) + 1, Min(hits) + Len(re.src))>>

\* [...new Set(matches)]
RECURSIVE Dedup(_)
Dedup(s) ==
  IF s = <<>> THEN <<>>
  ELSE LET init == Dedup(SubSeq(s, 1, Len(s) - 1))
           x == s[Len(s)]
       IN IF \E j \in 1..Len(init) : init[j] = x THEN init ELSE Append(init, x)

RECURSIVE ProfanityMatches(_, _, _)
ProfanityMatches(pats, content, j) ==
  IF j > Len(pats) THEN <<>>
  ELSE StringMatch(content, pats[j]) \o ProfanityMatches(pats, content, j + 1)

checkProfanity(cfg, profanityPatterns, content) ==
  IF ~cfg.enableProfanityFilter THEN [hasProfanity |-> FALSE]
  ELSE LET matches == ProfanityMatches(profanityPatterns, content, 1)
       IN IF Len(matches) > 0
            THEN [hasProfanity |-> TRUE,
                  matches |-> Dedup(matches),
                  reason |-> "Content contains profanity",
                  code |-> "PROFANITY_DETECTED"]
            ELSE [hasProfanity |-> FALSE]

\* The loop of checkHarmfulContent: pattern.test(content) on each pattern in
\* order.  A string has no test method: calling it raises a TypeError.
RECURSIVE HarmfulScan(_, _, _, _)
HarmfulScan(pats, lis, content, j) ==
  IF j > Len(pats) THEN [hit |-> 0, threw |-> FALSE, lis |-> lis]
  ELSE IF pats[j].kind = "string" THEN [hit |-> 0, threw |-> TRUE, lis |-> lis]
  ELSE LET t == RegExpTest(pats[j], content, lis[j])
           lis2 == [lis EXCEPT ![j] = t.lastIndex]
       IN IF t.found THEN [hit |-> j, threw |-> FALSE, lis |-> lis2]
          ELSE HarmfulScan(pats, lis2, content, j + 1)

\* checkHarmfulContent without the test of enableContentFilter.
checkHarmfulContentAlways(cfg, harmfulPatterns, li, content) ==
  LET h == HarmfulScan(harmfulPatterns, li.harmful, content, 1)
      li2 == [li EXCEPT !.harmful = h.lis]
  IN IF h.threw THEN [res |-> Threw("TypeError"), li |-> li2]
     ELSE IF h.hit # 0
       THEN [res |-> [isHarmful |-> TRUE,
                      reason |-> "Content may contain harmful or violent language",
                      code |-> "HARMFUL_CONTENT"],
             li |-> li2]
     ELSE [res |-> [isHarmful |-> FALSE], li |-> li2]

checkHarmfulContent(cfg, harmfulPatterns, li, content) ==
  IF ~cfg.enableContentFilter THEN [res |-> [isHarmful |-> FALSE], li |-> li]
  ELSE LET h == HarmfulScan(harmfulPatterns, li.harmful, content, 1)
           li2 == [li EXCEPT !.harmful = h.lis]
       IN IF h.threw THEN [res |-> Threw("TypeError"), li |-> li2]
          ELSE IF h.hit # 0
            THEN [res |-> [isHarmful |-> TRUE,
                           reason |-> "Content may contain harmful or violent language",
                           code |-> "HARMFUL_CONTENT"],
                  li |-> li2]
          ELSE [res |-> [isHarmful |-> FALSE], li |-> li2]

\* ------------------------------------------------------------------ policies

\* A policy is a function (kind "function") or an object with a check member
\* (kind "object"); kind "invalid" is an object without one.  name and reason
\* are "" when the policy has none.  beh names what the predicate does.
Policy(kind, name, reason, beh) == [kind |-> kind, name |-> name, reason |-> reason, beh |-> beh]

Includes(content, c) == \E j \in 1..Len(content) : content[j] = c

\* The options a predicate that holds the engine calls its configure with.
ReconfigureOptions == [violationAction |-> "allow", logViolations |-> FALSE]

\* What a call of the predicate beh with (content, context) does: it returns a
\* boolean, returns an object, returns nothing, or throws; "reconfigure" calls
\* configure(ReconfigureOptions) on the engine before it returns false.
PolicyCall(beh, content, context) ==
  CASE beh = "allow" -> [t |-> "boolean", v |-> TRUE]
    [] beh = "deny" -> [t |-> "boolean", v |-> FALSE]
    [] beh = "raise" -> [t |-> "throw", message |-> "boom"]
    [] beh = "pass" -> [t |-> "object", v |-> [passed |-> TRUE]]
    [] beh = "spam" ->
         IF Includes(content, "k")
           THEN [t |-> "object",
                 v |-> [passed |-> FALSE, reason |-> "Spam detected", code |-> "SPAM_DETECTED"]]
           ELSE [t |-> "object", v |-> [passed |-> TRUE]]
    [] beh = "noD" -> [t |-> "boolean", v |-> ~Includes(content, "d")]
    [] beh = "inputOnly" -> [t |-> "boolean", v |-> context = "input"]
    [] beh = "fail" -> [t |-> "object", v |-> [passed |-> FALSE, reason |-> "No"]]
    [] beh = "void" -> [t |-> "undefined"]
    [] beh = "reconfigure" ->
         [t |-> "boolean", v |-> FALSE, configure |-> ReconfigureOptions]

Undefined == [undefined |-> TRUE]

Field(r, f) == IF Has(r, f) THEN r[f] ELSE "undefined"

\* The result coercion with the generic reason in both branches.
CoerceGenericReason(ret, fallback) ==
  CASE ret.t = "boolean" ->
         [passed |-> ret.v, reason |-> IF ret.v THEN Null ELSE "Policy check failed"]
    [] ret.t = "object" -> ret.v
    [] ret.t = "undefined" -> Undefined
    [] ret.t = "throw" ->
         [passed |-> FALSE, reason |-> "Policy error: " \o ret.message, code |-> "POLICY_ERROR"]

\* The result coercion of _evaluatePolicy, the same in both branches but for
\* the fallback reason.
Coerce(ret, fallback) ==
  CASE ret.t = "boolean" ->
         [passed |-> ret.v, reason |-> IF ret.v THEN Null ELSE fallback]
    [] ret.t = "object" -> ret.v
    [] ret.t = "undefined" -> Undefined
    [] ret.t = "throw" ->
         [passed |-> FALSE, reason |-> "Policy error: " \o ret.message, code |-> "POLICY_ERROR"]

\* _evaluatePolicy without its try/catch: what the predicate throws leaves it.
evaluatePolicyUncaught(policy, content, context) ==
  IF policy.kind \in {"function", "object"}
       /\ PolicyCall(policy.beh, content, context).t = "throw"
    THEN Undefined
  ELSE IF policy.kind = "function"
    THEN Coerce(PolicyCall(policy.beh, content, context), "Policy check failed")
  ELSE IF policy.kind = "object"
    THEN Coerce(PolicyCall(policy.beh, content, context),
                IF policy.reason # "" THEN policy.reason ELSE "Policy check failed")
  ELSE [passed |-> TRUE, reason |-> "Invalid policy format"]

evaluatePolicy(policy, content, context) ==
  IF policy.kind = "function"
    THEN Coerce(PolicyCall(policy.beh, content, context), "Policy check failed")
  ELSE IF policy.kind = "object"
    THEN Coerce(PolicyCall(policy.beh, content, context),
                IF policy.reason # "" THEN policy.reason ELSE "Policy check failed")
  ELSE [passed |-> TRUE, reason |-> "Invalid policy format"]

\* The loop of applyPolicies with a break after the first violation.
RECURSIVE PolicyLoopFirstOnly(_, _, _, _)
PolicyLoopFirstOnly(policies, content, context, j) ==
  IF j > Len(policies) THEN [violations |-> <<>>, invoked |-> <<>>, threw |-> FALSE]
  ELSE LET policy == policies[j]
           result == evaluatePolicy(policy, content, context)
           call == IF policy.kind = "invalid" THEN <<>>
                   ELSE <<[policy |-> j, content |-> content, context |-> context]>>
       IN IF Has(result, "undefined")
            THEN [violations |-> <<>>, invoked |-> call, threw |-> TRUE]
          ELSE IF ~result.passed
            THEN [violations |->
                    <<[policy |-> IF policy.name # "" THEN policy.name ELSE "unnamed",
                       reason |-> Field(result, "reason"),
                       code |-> IF Has(result, "code") THEN result.code
                                ELSE "POLICY_VIOLATION"]>>,
                  invoked |-> call,
                  threw |-> FALSE]
          ELSE LET rest == PolicyLoopFirstOnly(policies, content, context, j + 1)
               IN [violations |-> rest.violations,
                   invoked |-> call \o rest.invoked,
                   threw |-> rest.threw]

\* The loop of applyPolicies from policy j on: the violations collected and the
\* predicate calls made, in order; threw when reading result.passed failed.
RECURSIVE PolicyLoop(_, _, _, _)
PolicyLoop(policies, content, context, j) ==
  IF j > Len(policies) THEN [violations |-> <<>>, invoked |-> <<>>, threw |-> FALSE]
  ELSE LET policy == policies[j]
           result == evaluatePolicy(policy, content, context)
           call == IF policy.kind = "invalid" THEN <<>>
                   ELSE <<[policy |-> j, content |-> content, context |-> context]>>
       IN IF Has(result, "undefined")
            THEN [violations |-> <<>>, invoked |-> call, threw |-> TRUE]
          ELSE LET rest == PolicyLoop(policies, content, context, j + 1)
                   v == IF ~result.passed
                          THEN <<[policy |-> IF policy.name # "" THEN policy.name ELSE "unnamed",
                                  reason |-> Field(result, "reason"),
                                  code |-> IF Has(result, "code") THEN result.code
                                           ELSE "POLICY_VIOLATION"]>>
                          ELSE <<>>
               IN [violations |-> v \o rest.violations,
                   invoked |-> call \o rest.invoked,
                   threw |-> rest.threw]

applyPolicies(cfg, content, context) ==
  IF Len(cfg.policies) = 0 THEN [res |-> [passed |-> TRUE], invoked |-> <<>>]
  ELSE LET l == PolicyLoop(cfg.policies, content, context, 1)
       IN IF l.threw THEN [res |-> Threw("TypeError"), invoked |-> l.invoked]
          ELSE IF Len(l.violations) > 0
            THEN [res |-> [passed |-> FALSE,
                           violations |-> l.violations,
                           reason |-> "Violated " \o ToString(Len(l.violations))
                                        \o " policy/policies",
                           code |-> "POLICY_VIOLATION"],
                  invoked |-> l.invoked]
          ELSE [res |-> [passed |-> TRUE], invoked |-> l.invoked]

\* ------------------------------------------------------------------ moderation

\* _logViolation: the records it hands to console.warn, none when
\* config.logViolations is off.  The timestamp is the time of the call.
logViolation(cfg, type, details) ==
  IF cfg.logViolations
    THEN <<[timestamp |-> "now", type |-> type, details |-> details]>>
    ELSE <<>>

\* The engine's configuration together with the console of its host, which
\* _logViolation reaches as a global: console.warn works or throws.
Consoles == {"works", "throws"}
Host(cfg, console) == Merge(cfg, [console |-> console])

\* The console.warn call of _logViolation raises.
LogThrows(cfg) == cfg.logViolations /\ cfg.console = "throws"

\* One stage of a moderation call: the result of its check and whether that
\* result reports a violation.
Stage(name, res, failed) == [stage |-> name, res |-> res, failed |-> failed]

\* What a moderation call did.  result: the verdict returned, or what was
\* thrown; li: the lastIndex of the RegExp objects afterwards; logged: the
\* records logged; invoked: the policy predicate calls made; trace: the stages
\* run, in order, the last one being the one that returned or threw.
\* this.config once the predicate calls in invoked have returned: cfg, merged
\* with the options of every configure call a predicate made, in call order.
RECURSIVE Reconfigured(_, _, _, _)
Reconfigured(cfg, policies, invoked, j) ==
  IF j > Len(invoked) THEN cfg
  ELSE LET call == invoked[j]
           ret == PolicyCall(policies[call.policy].beh, call.content, call.context)
       IN Reconfigured(IF Has(ret, "configure") THEN Merge(cfg, ret.configure) ELSE cfg,
                       policies, invoked, j + 1)

Outcome(result, li, logged, invoked, trace) ==
  [result |-> result, li |-> li, logged |-> logged, invoked |-> invoked, trace |-> trace]

\* this._logViolation(type, details); return verdict.  What console.warn throws
\* leaves the call in place of the verdict.
Deny(cfg, verdict, li, plog, type, details, invoked, t) ==
  IF LogThrows(cfg) THEN Outcome(Threw("console.warn"), li, plog, invoked, t)
  ELSE Outcome(verdict, li, plog \o logViolation(cfg, type, details), invoked, t)

\* moderateInput, the policy stage: p is what applyPolicies returned.  The
\* verdict and _logViolation read this.config after the predicates have run.
inputPolicyStage(cfg, li, plog, t, p) ==
  IF IsThrow(p.res)
    THEN Outcome(p.res, li, plog, p.invoked, Append(t, Stage("policy", p.res, FALSE)))
  ELSE IF ~p.res.passed
    THEN Deny(Reconfigured(cfg, cfg.policies, p.invoked, 1),
                 [allowed |-> FALSE,
                  reason |-> p.res.reason,
                  code |-> p.res.code,
                  violations |-> p.res.violations,
                  action |-> Reconfigured(cfg, cfg.policies, p.invoked, 1).violationAction],
                 li, plog, "policy_violation", p.res,
                 p.invoked,
                 Append(t, Stage("policy", p.res, TRUE)))
  ELSE Outcome([allowed |-> TRUE], li, plog, p.invoked, Append(t, Stage("policy", p.res, FALSE)))

\* moderateInput, the harmful-content stage: h is what checkHarmfulContent
\* returned, with the lastIndex it left.
inputHarmfulStage(cfg, message, plog, t, h) ==
  IF IsThrow(h.res)
    THEN Outcome(h.res, h.li, plog, <<>>, Append(t, Stage("harmful", h.res, FALSE)))
  ELSE IF h.res.isHarmful
    THEN Deny(cfg, [allowed |-> FALSE,
                  reason |-> h.res.reason,
                  code |-> h.res.code,
                  action |-> cfg.violationAction],
                 h.li, plog, "harmful_content", h.res,
                 <<>>,
                 Append(t, Stage("harmful", h.res, TRUE)))
  ELSE inputPolicyStage(cfg, h.li, plog, Append(t, Stage("harmful", h.res, FALSE)),
                        applyPolicies(cfg, message.chars, "input"))

\* moderateInput, the profanity stage: profanityCheck is what checkProfanity
\* returned.
inputProfanityStage(cfg, hp, li, message, t, profanityCheck) ==
  IF profanityCheck.hasProfanity /\ cfg.violationAction = "reject"
    THEN Deny(cfg, [allowed |-> FALSE,
                  reason |-> profanityCheck.reason,
                  code |-> profanityCheck.code,
                  matches |-> profanityCheck.matches,
                  action |-> cfg.violationAction],
                 li, <<>>, "profanity", profanityCheck,
                 <<>>,
                 Append(t, Stage("profanity", profanityCheck, TRUE)))
  ELSE IF profanityCheck.hasProfanity /\ LogThrows(cfg)
    THEN Outcome(Threw("console.warn"), li, <<>>, <<>>,
                 Append(t, Stage("profanity", profanityCheck, TRUE)))
  ELSE inputHarmfulStage(cfg, message,
                         IF profanityCheck.hasProfanity
                           THEN logViolation(cfg, "profanity", profanityCheck) ELSE <<>>,
                         Append(t, Stage("profanity", profanityCheck, profanityCheck.hasProfanity)),
                         checkHarmfulContent(cfg, hp, li, message.chars))

\* moderateInput, the pattern stage: b is what checkBlockedPatterns returned,
\* with the lastIndex it left.
inputPatternStage(cfg, pp, hp, message, t, b) ==
  IF IsThrow(b.res)
    THEN Outcome(b.res, b.li, <<>>, <<>>, Append(t, Stage("pattern", b.res, FALSE)))
  ELSE IF b.res.blocked
    THEN Deny(cfg, [allowed |-> FALSE,
                  reason |-> b.res.reason,
                  code |-> b.res.code,
                  action |-> cfg.violationAction],
                 b.li, <<>>, "blocked_pattern", b.res,
                 <<>>,
                 Append(t, Stage("pattern", b.res, TRUE)))
  ELSE inputProfanityStage(cfg, hp, b.li, message, Append(t, Stage("pattern", b.res, FALSE)),
                           checkProfanity(cfg, pp, message.chars))

\* The validator stage run after the pattern filter instead of before it.
inputValidatorStageAfterPattern(cfg, pp, hp, li, message, validation) ==
  IF /\ message.type = "string"
     /\ ~IsThrow(checkBlockedPatterns(cfg, li, message.chars).res)
     /\ checkBlockedPatterns(cfg, li, message.chars).res.blocked
    THEN inputPatternStage(cfg, pp, hp, message, <<>>,
                           checkBlockedPatterns(cfg, li, message.chars))
  ELSE IF ~validation.valid
    THEN Deny(cfg, [allowed |-> FALSE,
                  reason |-> validation.reason,
                  code |-> validation.code,
                  action |-> cfg.violationAction],
                 li, <<>>, "input_validation", validation,
                 <<>>,
                 <<Stage("validator", validation, TRUE)>>)
  ELSE inputPatternStage(cfg, pp, hp, message, <<Stage("validator", validation, FALSE)>>,
                         checkBlockedPatterns(cfg, li, message.chars))

\* moderateInput, the validator stage: validation is what validateInput returned.
inputValidatorStage(cfg, pp, hp, li, message, validation) ==
  IF ~validation.valid
    THEN Deny(cfg, [allowed |-> FALSE,
                  reason |-> validation.reason,
                  code |-> validation.code,
                  action |-> cfg.violationAction],
                 li, <<>>, "input_validation", validation,
                 <<>>,
                 <<Stage("validator", validation, TRUE)>>)
  ELSE inputPatternStage(cfg, pp, hp, message, <<Stage("validator", validation, FALSE)>>,
                         checkBlockedPatterns(cfg, li, message.chars))

\* moderateInput(message) on an engine whose configuration is cfg, whose
\* pattern sets are pp and hp and whose RegExp objects have the lastIndex li.
moderateInput(cfg, pp, hp, li, message) ==
  inputValidatorStage(cfg, pp, hp, li, message, validateInput(cfg, message))

\* moderateOutput, the policy stage: p is what applyPolicies returned.  The
\* verdict and _logViolation read this.config after the predicates have run.
outputPolicyStage(cfg, li, t, p) ==
  IF IsThrow(p.res)
    THEN Outcome(p.res, li, <<>>, p.invoked, Append(t, Stage("policy", p.res, FALSE)))
  ELSE IF ~p.res.passed
    THEN Deny(Reconfigured(cfg, cfg.policies, p.invoked, 1),
                 [allowed |-> FALSE,
                  reason |-> p.res.reason,
                  code |-> p.res.code,
                  violations |-> p.res.violations,
                  action |-> Reconfigured(cfg, cfg.policies, p.invoked, 1).violationAction],
                 li, <<>>, "output_policy_violation", p.res,
                 p.invoked,
                 Append(t, Stage("policy", p.res, TRUE)))
  ELSE Outcome([allowed |-> TRUE], li, <<>>, p.invoked, Append(t, Stage("policy", p.res, FALSE)))

\* moderateOutput, the pattern stage: b is what checkBlockedPatterns returned.
outputPatternStage(cfg, content, t, b) ==
  IF IsThrow(b.res)
    THEN Outcome(b.res, b.li, <<>>, <<>>, Append(t, Stage("pattern", b.res, FALSE)))
  ELSE IF b.res.blocked
    THEN Deny(cfg, [allowed |-> FALSE,
                  reason |-> b.res.reason,
                  code |-> b.res.code,
                  action |-> cfg.violationAction],
                 b.li, <<>>, "output_blocked_pattern", b.res,
                 <<>>,
                 Append(t, Stage("pattern", b.res, TRUE)))
  ELSE outputPolicyStage(cfg, b.li, Append(t, Stage("pattern", b.res, FALSE)),
                         applyPolicies(cfg, content.chars, "output"))

\* moderateOutput without the test of enableOutputModeration.
moderateOutputAlways(cfg, li, content) ==
  IF content.type = "null" THEN Outcome(Threw("TypeError"), li, <<>>, <<>>, <<>>)
  ELSE IF content.type = "string" /\ Len(content.chars) > cfg.maxResponseLength
    THEN Outcome([allowed |-> FALSE,
                  reason |-> "Response too long. Maximum length: "
                               \o ToString(cfg.maxResponseLength),
                  code |-> "RESPONSE_TOO_LONG"],
                 li, <<>>, <<>>, <<Stage("length", [tooLong |-> TRUE], TRUE)>>)
  ELSE outputPatternStage(cfg, content, <<Stage("length", [tooLong |-> FALSE], FALSE)>>,
                          checkBlockedPatterns(cfg, li, content.chars))

\* moderateOutput(content).  content.length of null raises a TypeError, of a
\* number is undefined, which is not greater than any number; RegExp test
\* converts its argument to a string.
moderateOutput(cfg, li, content) ==
  IF ~cfg.enableOutputModeration THEN Outcome([allowed |-> TRUE], li, <<>>, <<>>, <<>>)
  ELSE IF content.type = "null" THEN Outcome(Threw("TypeError"), li, <<>>, <<>>, <<>>)
  ELSE IF content.type = "string" /\ Len(content.chars) > cfg.maxResponseLength
    THEN Outcome([allowed |-> FALSE,
                  reason |-> "Response too long. Maximum length: "
                               \o ToString(cfg.maxResponseLength),
                  code |-> "RESPONSE_TOO_LONG"],
                 li, <<>>, <<>>, <<Stage("length", [tooLong |-> TRUE], TRUE)>>)
  ELSE outputPatternStage(cfg, content, <<Stage("length", [tooLong |-> FALSE], FALSE)>>,
                          checkBlockedPatterns(cfg, li, content.chars))

\* configure(options): this.config
configureConfig(cfg, options) == Merge(cfg, options)

\* configure(options) appending the patterns that options names to the set.
configurePatternsAppend(current, options, f) ==
  IF Has(options, f) THEN current \o options[f] ELSE current

\* configure(options): a pattern set is replaced when options names it
configurePatterns(current, options, f) == IF Has(options, f) THEN options[f] ELSE current

\* ------------------------------------------------------------------ inputs

\* /k/gi and /d/gi, as in the README's blockedPatterns; /k/ and /^K/i, without
\* the g flag; the strings 'k' and 'd'.
ReKgi == Regex(<<"k">>, FALSE, FALSE, TRUE, TRUE)
ReDgi == Regex(<<"d">>, FALSE, FALSE, TRUE, TRUE)
ReK == Regex(<<"k">>, FALSE, FALSE, FALSE, FALSE)
ReAnchKi == Regex(<<"K">>, TRUE, FALSE, FALSE, TRUE)
StrK == StringPattern(<<"k">>, FALSE, FALSE)
\* The string '(', which is no regular expression.
StrBad == StringPattern(<<"(">>, FALSE, FALSE)

StrD == StringPattern(<<"d">>, FALSE, FALSE)

\* The options the engine is constructed with.
ConstructorOptions ==
  { EmptyObject,
    [maxMessageLength |-> 1, maxResponseLength |-> 1, blockedPatterns |-> <<ReKgi, StrD>>],
    [minMessageLength |-> 0, allowedPatterns |-> List(<<ReAnchKi>>), violationAction |-> "warn"],
    [policies |-> <<Policy("function", "", "", "raise"), Policy("function", "", "", "pass")>>],
    [policies |-> <<Policy("object", "first", "", "allow"),
                    Policy("object", "second", "not this", "raise"),
                    Policy("function", "", "", "fail")>>,
     violationAction |-> "allow"],
    [enableOutputModeration |-> FALSE, maxResponseLength |-> 1,
     blockedPatterns |-> <<StrK>>, policies |-> <<Policy("function", "", "", "deny")>>],
    [allowedPatterns |-> List(<<StrBad>>)],
    [policies |-> <<Policy("function", "", "", "reconfigure")>>],
    [logViolations |-> FALSE, tenant |-> "acme"] }

\* The options configure is called with.
ConfigureOptions ==
  { [violationAction |-> "warn"],
    [violationAction |-> "allow", logViolations |-> FALSE],
    [minMessageLength |-> 2],
    [enableContentFilter |-> FALSE],
    [enableOutputModeration |-> FALSE],
    [blockedPatterns |-> <<ReK, ReDgi>>, allowedPatterns |-> List(<<StrK>>)],
    [allowedPatterns |-> List(<<ReDgi>>)],
    [policies |-> <<Policy("object", "No d", "d is not allowed", "noD"),
                    Policy("function", "", "", "spam"),
                    Policy("function", "inputOnly", "", "inputOnly")>>],
    [profanityPatterns |-> <<ReDgi>>, harmfulPatterns |-> <<ReKgi>>],
    [profanityPatterns |-> <<ReKgi>>, harmfulPatterns |-> <<ReDgi>>],
    [policies |-> <<Policy("function", "", "", "void"), Policy("function", "", "", "deny")>>],
    [blockedPatterns |-> <<StrBad>>],
    [profanityPatterns |-> <<StrK>>, harmfulPatterns |-> <<StrD>>] }

\* ------------------------------------------------------------------ state

VARIABLES
  config,             \* this.config
  profanityPatterns,  \* this.profanityPatterns
  harmfulPatterns,    \* this.harmfulPatterns
  lastIndex,          \* the lastIndex of the RegExp objects of blockedPatterns,
                      \* allowedPatterns and harmfulPatterns
  nConfigure,         \* the number of configure calls so far
  op,                 \* the last call: "new", "configure", "moderateInput", "moderateOutput"
  arg,                \* its argument
  result,             \* what it returned or threw
  logged,             \* the violation records it logged
  invoked,            \* the policy predicate calls it made
  trace               \* the stages it ran

\* The ChatServer that the package exports beside the engine.
VARIABLES
  serverConfig,        \* ChatServer this.config
  conversations,       \* this.conversations: id -> conversation
  rateLimits,          \* this.rateLimits: id -> timestamps
  clientSystemPrompt,  \* this.chatClient.systemPrompt
  sessions,            \* the sessionIds of the WebSocket connections
  pending,             \* the backend calls that handlers await
  sent,                \* what the last step wrote to its caller
  uuids,               \* the number of uuidv4() results so far
  requests,            \* the number of chat requests so far
  now                  \* Date.now()

engineVars == <<config, profanityPatterns, harmfulPatterns, lastIndex, nConfigure,
                op, arg, result, logged, invoked, trace>>

serverVars == <<serverConfig, conversations, rateLimits, clientSystemPrompt, sessions,
                pending, sent, uuids, requests, now>>

vars == <<engineVars, serverVars>>

\* The number of configure calls explored.
MaxConfigure == 1

FreshLastIndex(cfg, hp) ==
  [blocked |-> Zeros(Len(cfg.blockedPatterns)),
   allowed |-> Zeros(Len(cfg.allowedPatterns.items)),
   harmful |-> Zeros(Len(hp))]

\* ChatServer defaults (config.js) under the constructor's options.
DefaultRateLimit == 60
DefaultMaxConversationHistory == 50
DefaultSystemPrompt == "You are a helpful assistant."

defaultConfig ==
  [systemPrompt |-> DefaultSystemPrompt,
   maxConversationHistory |-> DefaultMaxConversationHistory,
   rateLimit |-> DefaultRateLimit]

\* new ChatServer(options)
ServerConstructed(options) ==
  /\ serverConfig = Merge(defaultConfig, options)
  /\ conversations = EmptyObject
  /\ rateLimits = EmptyObject
  /\ clientSystemPrompt =
       (IF Merge(defaultConfig, options).systemPrompt # ""
          THEN Merge(defaultConfig, options).systemPrompt
          ELSE DefaultSystemPrompt)
  /\ sessions = {}
  /\ pending = {}
  /\ sent = <<>>
  /\ uuids = 0
  /\ requests = 0
  /\ now = 0

Init ==
  \E options \in ConstructorOptions :
    /\ ServerConstructed(EmptyObject)
    /\ config = ConstructorConfig(options)
    /\ profanityPatterns = ConstructorProfanityPatterns(options)
    /\ harmfulPatterns = ConstructorHarmfulPatterns(options)
    /\ lastIndex = FreshLastIndex(ConstructorConfig(options), ConstructorHarmfulPatterns(options))
    /\ nConfigure = 0
    /\ op = "new"
    /\ arg = options
    /\ result = Undefined
    /\ logged = <<>>
    /\ invoked = <<>>
    /\ trace = <<>>

\* moderateInput(message) on a host whose console.warn works or throws.
ModerateInputOn(console) ==
  \E message \in Values :
    LET r == moderateInput(Host(config, console), profanityPatterns, harmfulPatterns,
                           lastIndex, message)
    IN /\ op' = "moderateInput"
       /\ arg' = message
       /\ result' = r.result
       /\ lastIndex' = r.li
       /\ logged' = r.logged
       /\ invoked' = r.invoked
       /\ trace' = r.trace
       /\ config' = Reconfigured(config, config.policies, r.invoked, 1)
       /\ UNCHANGED <<profanityPatterns, harmfulPatterns, nConfigure>>
       /\ UNCHANGED serverVars

\* moderateInput(message)
ModerateInput == ModerateInputOn("works")

\* moderateOutput(content) on a host whose console.warn works or throws.
ModerateOutputOn(console) ==
  \E content \in Values :
    LET r == moderateOutput(Host(config, console), lastIndex, content)
    IN /\ op' = "moderateOutput"
       /\ arg' = content
       /\ result' = r.result
       /\ lastIndex' = r.li
       /\ logged' = r.logged
       /\ invoked' = r.invoked
       /\ trace' = r.trace
       /\ config' = Reconfigured(config, config.policies, r.invoked, 1)
       /\ UNCHANGED <<profanityPatterns, harmfulPatterns, nConfigure>>
       /\ UNCHANGED serverVars

\* moderateOutput(content)
ModerateOutput == ModerateOutputOn("works")

\* configure(options).  The RegExp objects of a list that options names are
\* new ones, with lastIndex 0; the others keep theirs.
Configure ==
  \E options \in ConfigureOptions :
    /\ nConfigure < MaxConfigure
    /\ nConfigure' = nConfigure + 1
    /\ config' = configureConfig(config, options)
    /\ profanityPatterns' = configurePatterns(profanityPatterns, options, "profanityPatterns")
    /\ harmfulPatterns' = configurePatterns(harmfulPatterns, options, "harmfulPatterns")
    /\ lastIndex' =
         [blocked |-> IF Has(options, "blockedPatterns")
                        THEN Zeros(Len(options.blockedPatterns)) ELSE lastIndex.blocked,
          allowed |-> IF Has(options, "allowedPatterns")
                        THEN Zeros(Len(options.allowedPatterns.items)) ELSE lastIndex.allowed,
          harmful |-> IF Has(options, "harmfulPatterns")
                        THEN Zeros(Len(options.harmfulPatterns)) ELSE lastIndex.harmful]
    /\ op' = "configure"
    /\ arg' = options
    /\ result' = Undefined
    /\ logged' = <<>>
    /\ invoked' = <<>>
    /\ trace' = <<>>
    /\ UNCHANGED serverVars

Next == ModerateInput \/ ModerateOutput \/ Configure

Spec == Init /\ [][Next]_vars

\* The engine on a host whose console.warn may throw.
ModerateInputAnyConsole == \E console \in Consoles : ModerateInputOn(console)

ModerateOutputAnyConsole == \E console \in Consoles : ModerateOutputOn(console)

FaultNext == ModerateInputAnyConsole \/ ModerateOutputAnyConsole \/ Configure

\* The engines the fault is followed on: the default one and one that warns.
FaultConstructorOptions ==
  { options \in ConstructorOptions :
      \/ options = EmptyObject
      \/ (Has(options, "violationAction") /\ options.violationAction = "warn") }

FaultInit == Init /\ arg \in FaultConstructorOptions

FaultSpec == FaultInit /\ [][FaultNext]_vars

\* ------------------------------------------------------------------ ChatServer handlers

\* The uuidv4() results, the chat requests, the chunks of one stream and the
\* clock steps explored.
MaxUuids == 1
MaxRequests == 2
MaxChunks == 2
MaxTicks == 1

\* _checkRateLimit's window, in milliseconds.
WindowMs == 60000

ServerOptions ==
  { EmptyObject,
    [rateLimit |-> 1, maxConversationHistory |-> 2],
    [maxConversationHistory |-> 0],
    [rateLimit |-> 0] }

\* Request bodies: a message is a string, possibly empty, a systemPrompt is a
\* string or absent, a conversationId names a conversation or nothing.
ServerMessages == {Str(<<"k">>), Str(<<>>)}
SystemPrompts == {"", "Be terse."}
ConversationIds == 0..MaxUuids

\* What the backend answers with.
Completions == {Str(<<"d">>)}

\* The delta contents of a stream's chunks; a chunk may carry none.
Deltas == {Str(<<"d">>), Str(<<"k">>), Str(<<>>)}

\* !message
IsFalsy(message) == message.chars = <<>>

Conversation(id, systemPrompt, t) ==
  [id |-> id, messages |-> <<>>, systemPrompt |-> systemPrompt,
   createdAt |-> t, updatedAt |-> t]

\* this.conversations.set(id, conversation)
MapSet(map, key, value) ==
  [k \in DOMAIN map \cup {key} |-> IF k = key THEN value ELSE map[k]]

\* this.conversations.delete(id)
MapDelete(map, key) == [k \in DOMAIN map \ {key} |-> map[k]]

\* _checkRateLimit with > in place of >=.
checkRateLimitOneMore(limits, sessionId, t, cfg) ==
  LET timestamps == IF sessionId \in DOMAIN limits THEN limits[sessionId] ELSE <<>>
      validTimestamps == SelectSeq(timestamps, LAMBDA x : t - x < WindowMs)
  IN IF Len(validTimestamps) > cfg.rateLimit
       THEN [ok |-> FALSE, limits |-> MapSet(limits, sessionId, timestamps)]
     ELSE [ok |-> TRUE, limits |-> MapSet(limits, sessionId, Append(validTimestamps, t))]

\* _checkRateLimit(sessionId) at time t: whether the call is let through, and
\* this.rateLimits afterwards.
checkRateLimit(limits, sessionId, t, cfg) ==
  LET timestamps == IF sessionId \in DOMAIN limits THEN limits[sessionId] ELSE <<>>
      validTimestamps == SelectSeq(timestamps, LAMBDA x : t - x < WindowMs)
  IN IF Len(validTimestamps) >= cfg.rateLimit
       THEN [ok |-> FALSE, limits |-> MapSet(limits, sessionId, timestamps)]
     ELSE [ok |-> TRUE, limits |-> MapSet(limits, sessionId, Append(validTimestamps, t))]

\* conversation.messages.push({ role, content, timestamp })
pushMessage(conversation, role, content, t) ==
  [conversation EXCEPT
     !.messages = Append(@, [role |-> role, content |-> content, timestamp |-> t])]

\* array.slice(-n)
SliceLast(seq, n) ==
  IF n = 0 \/ n >= Len(seq) THEN seq
  ELSE SubSeq(seq, Len(seq) - n + 1, Len(seq))

\* The messages a chat handler prepares for the API.
apiMessages(conversation, cfg) ==
  LET kept == SliceLast(conversation.messages, cfg.maxConversationHistory)
  IN <<[role |-> "system", content |-> conversation.systemPrompt]>>
     \o [j \in 1..Len(kept) |-> [role |-> kept[j].role, content |-> kept[j].content]]

\* ChatClient._formatMessages(messages) under the client's system prompt.
formatMessages(messages, systemPrompt) ==
  IF \E j \in 1..Len(messages) : messages[j].role = "system"
    THEN messages
  ELSE <<[role |-> "system", content |-> systemPrompt]>> \o messages

\* A backend call in flight: the request it serves, its route, the conversation
\* object its handler holds (0: none), the user message of the request, the
\* formatted messages given to the API and what the stream has delivered.
Call(rid, route, conv, message, messages) ==
  [rid |-> rid, route |-> route, conv |-> conv, message |-> message,
   messages |-> messages, fullContent |-> <<>>, chunks |-> 0]

Event(to, kind, content) == [to |-> to, kind |-> kind, content |-> content]

\* The handler's conversation object after a push, if the map still holds it.
pushAssistant(convs, id, content, t) ==
  IF id \in DOMAIN convs
    THEN MapSet(convs, id, [pushMessage(convs[id], "assistant", content, t)
                              EXCEPT !.updatedAt = t])
  ELSE convs

\* new ChatServer(options), with no request made yet.
ServerInit ==
  /\ \E options \in ServerOptions : ServerConstructed(options)
  /\ config = ConstructorConfig(EmptyObject)
  /\ profanityPatterns = ConstructorProfanityPatterns(EmptyObject)
  /\ harmfulPatterns = ConstructorHarmfulPatterns(EmptyObject)
  /\ lastIndex = FreshLastIndex(ConstructorConfig(EmptyObject),
                                ConstructorHarmfulPatterns(EmptyObject))
  /\ nConfigure = 0
  /\ op = "new"
  /\ arg = EmptyObject
  /\ result = Undefined
  /\ logged = <<>>
  /\ invoked = <<>>
  /\ trace = <<>>

\* POST /conversation
PostConversation ==
  \E systemPrompt \in SystemPrompts :
    /\ uuids < MaxUuids
    /\ uuids' = uuids + 1
    /\ conversations' =
         MapSet(conversations, uuids + 1,
                Conversation(uuids + 1,
                             IF systemPrompt # "" THEN systemPrompt
                             ELSE serverConfig.systemPrompt,
                             now))
    /\ sent' = <<Event(uuids + 1, "created", NullValue)>>
    /\ UNCHANGED <<serverConfig, rateLimits, clientSystemPrompt, sessions, pending,
                   requests, now>>
    /\ UNCHANGED engineVars

\* DELETE /conversation/:id
DeleteConversation ==
  \E id \in 1..MaxUuids :
    /\ conversations' = MapDelete(conversations, id)
    /\ sent' = <<Event(id, IF id \in DOMAIN conversations THEN "deleted" ELSE "not found",
                       NullValue)>>
    /\ UNCHANGED <<serverConfig, rateLimits, clientSystemPrompt, sessions, pending,
                   uuids, requests, now>>
    /\ UNCHANGED engineVars

\* The part that POST /chat and a WebSocket chat message share, from the rate
\* limit to the call of the backend, for the conversation convId of convs.
chatTurn(convs, convId, message, route, errorKind) ==
  LET limit == checkRateLimit(rateLimits, convId, now, serverConfig)
      conversation == pushMessage(convs[convId], "user", message, now)
  IN IF ~limit.ok
       THEN /\ conversations' = convs
            /\ rateLimits' = limit.limits
            /\ sent' = <<Event(convId, errorKind, NullValue)>>
            /\ UNCHANGED pending
     ELSE /\ conversations' = MapSet(convs, convId, conversation)
          /\ rateLimits' = limit.limits
          /\ pending' = pending \cup
               {Call(requests + 1, route, convId, message,
                     formatMessages(apiMessages(conversation, serverConfig),
                                    clientSystemPrompt))}
          /\ sent' = IF route = "ws" THEN <<Event(convId, "start", NullValue)>> ELSE <<>>

\* POST /chat
PostChat ==
  \E message \in ServerMessages, conversationId \in ConversationIds, stream \in BOOLEAN :
    /\ requests < MaxRequests
    /\ requests' = requests + 1
    /\ IF IsFalsy(message)
         THEN /\ sent' = <<Event(0, "400", NullValue)>>
              /\ UNCHANGED <<conversations, rateLimits, pending, uuids>>
       ELSE IF conversationId # 0 /\ conversationId \in DOMAIN conversations
         THEN /\ chatTurn(conversations, conversationId, message,
                          IF stream THEN "stream" ELSE "chat", "429")
              /\ UNCHANGED uuids
       ELSE /\ uuids < MaxUuids
            /\ uuids' = uuids + 1
            /\ chatTurn(MapSet(conversations, uuids + 1,
                               Conversation(uuids + 1, serverConfig.systemPrompt, now)),
                        uuids + 1, message, IF stream THEN "stream" ELSE "chat", "429")
    /\ UNCHANGED <<serverConfig, clientSystemPrompt, sessions, now>>
    /\ UNCHANGED engineVars

\* POST /chat/simple, up to its await; the handler keeps the systemPrompt of
\* its request body.
PostChatSimple ==
  \E message \in ServerMessages, systemPrompt \in SystemPrompts :
    /\ requests < MaxRequests
    /\ requests' = requests + 1
    /\ IF IsFalsy(message)
         THEN /\ sent' = <<Event(0, "400", NullValue)>>
              /\ UNCHANGED <<pending, clientSystemPrompt>>
       ELSE /\ clientSystemPrompt' =
                 (IF systemPrompt # "" THEN systemPrompt ELSE clientSystemPrompt)
            /\ pending' = pending \cup
                 {Merge(Call(requests + 1, "simple", 0, message,
                             formatMessages(<<[role |-> "user", content |-> message]>>,
                                            IF systemPrompt # "" THEN systemPrompt
                                            ELSE clientSystemPrompt)),
                        [systemPrompt |-> systemPrompt])}
            /\ sent' = <<>>
    /\ UNCHANGED <<serverConfig, conversations, rateLimits, sessions, uuids, now>>
    /\ UNCHANGED engineVars

\* A WebSocket connection.
WsConnect ==
  /\ uuids < MaxUuids
  /\ uuids' = uuids + 1
  /\ sessions' = sessions \cup {uuids + 1}
  /\ conversations' =
       MapSet(conversations, uuids + 1,
              Conversation(uuids + 1, serverConfig.systemPrompt, now))
  /\ sent' = <<Event(uuids + 1, "connected", NullValue)>>
  /\ UNCHANGED <<serverConfig, rateLimits, clientSystemPrompt, pending, requests, now>>
  /\ UNCHANGED engineVars

\* A WebSocket message of type 'chat': _handleWebSocketChat up to its await.
WsChat ==
  \E sessionId \in sessions, message \in ServerMessages :
    /\ requests < MaxRequests
    /\ requests' = requests + 1
    /\ IF sessionId \notin DOMAIN conversations
         THEN /\ sent' = <<Event(sessionId, "error: Session not found", NullValue)>>
              /\ UNCHANGED <<conversations, rateLimits, pending>>
       ELSE chatTurn(conversations, sessionId, message, "ws", "error: Rate limit exceeded")
    /\ UNCHANGED <<serverConfig, clientSystemPrompt, sessions, uuids, now>>
    /\ UNCHANGED engineVars

\* A WebSocket message of type 'configure'.
WsConfigure ==
  \E sessionId \in sessions, systemPrompt \in SystemPrompts :
    /\ conversations' =
         (IF sessionId \in DOMAIN conversations /\ systemPrompt # ""
            THEN MapSet(conversations, sessionId,
                        [conversations[sessionId] EXCEPT !.systemPrompt = systemPrompt])
          ELSE conversations)
    /\ sent' = <<Event(sessionId, "configured", NullValue)>>
    /\ UNCHANGED <<serverConfig, rateLimits, clientSystemPrompt, sessions, pending,
                   uuids, requests, now>>
    /\ UNCHANGED engineVars

\* A WebSocket message of type 'clear'.
WsClear ==
  \E sessionId \in sessions :
    /\ conversations' =
         (IF sessionId \in DOMAIN conversations
            THEN MapSet(conversations, sessionId,
                        [conversations[sessionId] EXCEPT !.messages = <<>>,
                                                         !.updatedAt = now])
          ELSE conversations)
    /\ sent' = <<Event(sessionId, "cleared", NullValue)>>
    /\ UNCHANGED <<serverConfig, rateLimits, clientSystemPrompt, sessions, pending,
                   uuids, requests, now>>
    /\ UNCHANGED engineVars

\* chatClient.chat resolves: the rest of POST /chat and of POST /chat/simple.
ChatResolves ==
  \E call \in pending, success \in BOOLEAN, content \in Completions :
    /\ call.route \in {"chat", "simple"}
    /\ pending' = pending \ {call}
    /\ clientSystemPrompt' =
         (IF call.route = "simple" THEN serverConfig.systemPrompt ELSE clientSystemPrompt)
    /\ conversations' =
         (IF success /\ call.route = "chat"
            THEN pushAssistant(conversations, call.conv, content, now)
          ELSE conversations)
    /\ sent' = <<IF success THEN Event(call.rid, "message", content)
                 ELSE Event(call.rid, "500", NullValue)>>
    /\ UNCHANGED <<serverConfig, rateLimits, sessions, uuids, requests, now>>
    /\ UNCHANGED engineVars

\* streamChat calling onChunk for every chunk, with content or without.
StreamChunkUnfiltered(deltas) ==
  \E call \in pending, content \in deltas :
    /\ call.route \in {"stream", "ws"}
    /\ call.chunks < MaxChunks
    /\ pending' = (pending \ {call}) \cup
         {[call EXCEPT !.fullContent = @ \o content.chars, !.chunks = @ + 1]}
    /\ sent' = <<Event(call.rid, "chunk", content)>>
    /\ UNCHANGED <<serverConfig, conversations, rateLimits, clientSystemPrompt, sessions,
                   uuids, requests, now>>
    /\ UNCHANGED engineVars

\* The stream of chatClient.streamChat delivers a chunk: when it has content,
\* onChunk writes it to the caller.
StreamChunkOf(deltas) ==
  \E call \in pending, content \in deltas :
    /\ call.route \in {"stream", "ws"}
    /\ call.chunks < MaxChunks
    /\ pending' = (pending \ {call}) \cup
         {[call EXCEPT !.fullContent = @ \o content.chars, !.chunks = @ + 1]}
    /\ sent' = IF IsFalsy(content) THEN <<>> ELSE <<Event(call.rid, "chunk", content)>>
    /\ UNCHANGED <<serverConfig, conversations, rateLimits, clientSystemPrompt, sessions,
                   uuids, requests, now>>
    /\ UNCHANGED engineVars

\* A chunk of the backend's answer.
StreamChunk == StreamChunkOf(Completions)

\* The handler sending its closing message only after a successful stream.
StreamResolvesEndOnSuccess ==
  \E call \in pending, success \in BOOLEAN :
    /\ call.route \in {"stream", "ws"}
    /\ pending' = pending \ {call}
    /\ conversations' =
         (IF success
            THEN pushAssistant(conversations, call.conv, Str(call.fullContent), now)
          ELSE conversations)
    /\ sent' = IF success
                 THEN <<Event(call.rid, "chunk done", Str(call.fullContent)),
                        Event(call.rid, IF call.route = "ws" THEN "end" ELSE "done",
                              NullValue)>>
               ELSE <<Event(call.rid, "chunk error", NullValue)>>
    /\ UNCHANGED <<serverConfig, rateLimits, clientSystemPrompt, sessions,
                   uuids, requests, now>>
    /\ UNCHANGED engineVars

\* The stream ends or fails: the last onChunk, then the rest of the handler.
StreamResolves ==
  \E call \in pending, success \in BOOLEAN :
    /\ call.route \in {"stream", "ws"}
    /\ pending' = pending \ {call}
    /\ conversations' =
         (IF success
            THEN pushAssistant(conversations, call.conv, Str(call.fullContent), now)
          ELSE conversations)
    /\ sent' = <<IF success THEN Event(call.rid, "chunk done", Str(call.fullContent))
                 ELSE Event(call.rid, "chunk error", NullValue),
                 Event(call.rid, IF call.route = "ws" THEN "end" ELSE "done", NullValue)>>
    /\ UNCHANGED <<serverConfig, rateLimits, clientSystemPrompt, sessions,
                   uuids, requests, now>>
    /\ UNCHANGED engineVars

\* Time passes: one rate-limit window.
Tick ==
  /\ now < MaxTicks * WindowMs
  /\ now' = now + WindowMs
  /\ UNCHANGED <<serverConfig, conversations, rateLimits, clientSystemPrompt, sessions,
                 pending, sent, uuids, requests>>
  /\ UNCHANGED engineVars

ServerNext ==
  \/ PostConversation
  \/ DeleteConversation
  \/ PostChat
  \/ PostChatSimple
  \/ WsConnect
  \/ WsChat
  \/ WsConfigure
  \/ WsClear
  \/ ChatResolves
  \/ StreamChunk
  \/ StreamResolves
  \/ Tick

ServerSpec == ServerInit /\ [][ServerNext]_vars

\* The streaming handlers alone, over streams whose chunks differ and may be
\* empty.
StreamChunkAny == StreamChunkOf(Deltas)

StreamNext == PostChat \/ WsConnect \/ WsChat \/ StreamChunkAny \/ ChatResolves
                \/ StreamResolves

StreamSpec == ServerInit /\ [][StreamNext]_vars

\* The server with a backend whose streams all end: streamChat returns once
\* the stream is over or has failed.
ServerFairSpec == ServerSpec /\ WF_vars(StreamResolves)

\* ------------------------------------------------------------------ claims

IsString(v) == v.type = "string"

IsModeration == op \in {"moderateInput", "moderateOutput"}

IsVerdict(r) == Has(r, "allowed")

Denied(r) == IsVerdict(r) /\ ~r.allowed

DeniedWith(r, code) == Denied(r) /\ Has(r, "code") /\ r.code = code

\* The pattern as the specification reads it: a string is a regular expression
\* with the flags gi, a RegExp is itself.
Compiled(p) == IF p.kind = "string" THEN NewRegExpGI(p) ELSE p

\* The text s contains a match of the pattern p.
Matches(p, s) == MatchIndices(Compiled(p), s) # {}

AnyMatches(pats, s) == \E j \in 1..Len(pats) : Matches(pats[j], s)

\* The last call ran the stage.
Ran(name) == \E j \in 1..Len(trace) : trace[j].stage = name

\* The result of the stage's check in the last call.
StageRes(name) == trace[CHOOSE j \in 1..Len(trace) : trace[j].stage = name].res

\* C1: for a fixed configuration and input, a repeated call of moderateInput
\* (or of moderateOutput) returns the same verdict as the call before it, hence
\* as the first.
C1_Determinism ==
  [][(IsModeration /\ op' = op /\ arg' = arg) => result' = result]_vars

\* The order of the stages of moderateInput.
InputStageOrder == <<"validator", "pattern", "profanity", "harmful", "policy">>

\* The codes with which a stage denies.
StageCodes(name) ==
  CASE name = "validator" ->
         {"INVALID_TYPE", "MESSAGE_TOO_SHORT", "MESSAGE_TOO_LONG", "EMPTY_MESSAGE"}
    [] name = "pattern" -> {"BLOCKED_PATTERN", "NOT_ALLOWED_PATTERN"}
    [] name = "profanity" -> {"PROFANITY_DETECTED"}
    [] name = "harmful" -> {"HARMFUL_CONTENT"}
    [] name = "policy" -> {"POLICY_VIOLATION"}

\* The stage found a violation that denies: profanity denies only under reject.
HardFails(s) == s.failed /\ (s.stage = "profanity" => config.violationAction = "reject")

\* C2: moderateInput runs its stages in the order validator, pattern filter,
\* profanity filter, harmful-content filter, policy engine, stops at the first
\* that hard-fails and denies with that stage's code; a message longer than
\* maxMessageLength (and not too short) is denied with MESSAGE_TOO_LONG whether
\* or not it matches a blocked pattern.
C2_StageOrder ==
  op = "moderateInput" =>
    /\ Len(trace) \in 1..Len(InputStageOrder)
    /\ \A j \in 1..Len(trace) : trace[j].stage = InputStageOrder[j]
    /\ \A j \in 1..(Len(trace) - 1) : ~HardFails(trace[j])
    /\ Denied(result) =>
         /\ HardFails(trace[Len(trace)])
         /\ result.code = trace[Len(trace)].res.code
         /\ result.code \in StageCodes(trace[Len(trace)].stage)
    /\ (IsVerdict(result) /\ result.allowed) =>
         /\ Len(trace) = Len(InputStageOrder)
         /\ ~HardFails(trace[Len(trace)])
    /\ (/\ IsString(arg)
        /\ Len(arg.chars) >= config.minMessageLength
        /\ Len(arg.chars) > config.maxMessageLength) =>
         DeniedWith(result, "MESSAGE_TOO_LONG")

\* A message that is too long and matches a blocked pattern was denied.
C2_Witness ==
  /\ op = "moderateInput"
  /\ IsString(arg)
  /\ Len(arg.chars) > config.maxMessageLength
  /\ config.enableContentFilter
  /\ AnyMatches(config.blockedPatterns, arg.chars)
  /\ DeniedWith(result, "MESSAGE_TOO_LONG")

Blank(chars) == \A j \in 1..Len(chars) : chars[j] = " "

\* C10: validateInput reports INVALID_TYPE for a value that is not a string,
\* else MESSAGE_TOO_SHORT for a length below minMessageLength, else
\* MESSAGE_TOO_LONG for a length above maxMessageLength, else EMPTY_MESSAGE for
\* a blank string, and is valid only when none applies.
C10_ValidateOrder ==
  op = "moderateInput" =>
    LET v == StageRes("validator")
        code == IF v.valid THEN "NONE" ELSE v.code
        short == Len(arg.chars) < config.minMessageLength
        long == Len(arg.chars) > config.maxMessageLength
    IN /\ Ran("validator")
       /\ code = "INVALID_TYPE" <=> ~IsString(arg)
       /\ code = "MESSAGE_TOO_SHORT" <=> (IsString(arg) /\ short)
       /\ code = "MESSAGE_TOO_LONG" <=> (IsString(arg) /\ ~short /\ long)
       /\ code = "EMPTY_MESSAGE" <=> (IsString(arg) /\ ~short /\ ~long /\ Blank(arg.chars))
       /\ v.valid <=> (IsString(arg) /\ ~short /\ ~long /\ ~Blank(arg.chars))

\* A blank string that is also too long was reported too long, and a value
\* that is not a string was reported as such.
C10_Witness ==
  /\ op = "moderateInput"
  /\ IsString(arg)
  /\ Blank(arg.chars)
  /\ Len(arg.chars) > config.maxMessageLength
  /\ StageRes("validator").code = "MESSAGE_TOO_LONG"

\* The text of the last call, as the checks see it.
Text == arg.chars

\* The context the last call hands to applyPolicies.
Context == IF op = "moderateInput" THEN "input" ELSE "output"

\* The policy predicate returns true or a result with passed = true.
PolicyPasses(policy, content, context) ==
  LET ret == PolicyCall(policy.beh, content, context)
  IN \/ ret.t = "boolean" /\ ret.v
     \/ ret.t = "object" /\ ret.v.passed

PolicyRaises(policy, content, context) ==
  PolicyCall(policy.beh, content, context).t = "throw"

\* Every policy is a function or an object with a check member, and returns a
\* boolean or a result object, or raises.
WellFormedPolicies ==
  \A j \in 1..Len(config.policies) :
    /\ config.policies[j].kind \in {"function", "object"}
    /\ PolicyCall(config.policies[j].beh, Text, Context).t # "undefined"

InRange(chars) ==
  /\ Len(chars) >= config.minMessageLength
  /\ Len(chars) <= config.maxMessageLength

\* The message has a profane word.
Profane(chars) == config.enableProfanityFilter /\ AnyMatches(profanityPatterns, chars)

\* The message is valid, passes the blocked and the allowed patterns, has no
\* harmful word and passes every policy.
NoOtherViolation(chars) ==
  /\ InRange(chars)
  /\ ~Blank(chars)
  /\ config.enableContentFilter =>
       /\ ~AnyMatches(config.blockedPatterns, chars)
       /\ ~AnyMatches(harmfulPatterns, chars)
       /\ (config.allowedPatterns.null \/ Len(config.allowedPatterns.items) = 0
             \/ AnyMatches(config.allowedPatterns.items, chars))
  /\ \A j \in 1..Len(config.policies) : PolicyPasses(config.policies[j], chars, "input")

\* C3: a profane message that violates no other stage is allowed by
\* moderateInput under violationAction warn or allow, a profanity record being
\* logged when logViolations is on, and is denied with PROFANITY_DETECTED under
\* reject.
C3_ProfanityAction ==
  (op = "moderateInput" /\ IsString(arg) /\ Profane(Text) /\ NoOtherViolation(Text)) =>
    /\ config.violationAction \in {"warn", "allow"} =>
         /\ result = [allowed |-> TRUE]
         /\ config.logViolations => \E j \in 1..Len(logged) : logged[j].type = "profanity"
    /\ config.violationAction = "reject" => DeniedWith(result, "PROFANITY_DETECTED")

\* C4: with enableContentFilter on, whatever violationAction is, a message
\* that passed the validator and the pattern filter and matches a harmful
\* pattern is denied with HARMFUL_CONTENT, unless profanity denied it first.
C4_HarmfulAlwaysDenied ==
  (/\ op = "moderateInput"
   /\ config.enableContentFilter
   /\ Ran("pattern")
   /\ ~IsThrow(StageRes("pattern"))
   /\ ~StageRes("pattern").blocked
   /\ AnyMatches(harmfulPatterns, Text)
   /\ ~DeniedWith(result, "PROFANITY_DETECTED")) =>
    DeniedWith(result, "HARMFUL_CONTENT")

\* C6: a policy predicate that raises is recorded as one violation coded
\* POLICY_ERROR, the error does not leave applyPolicies, and every policy after
\* it is still evaluated; two policies of which the first raises and the second
\* passes give passed = false with exactly one violation, coded POLICY_ERROR.
C6_PolicyErrorIsolation ==
  (IsModeration /\ Ran("policy") /\ WellFormedPolicies) =>
    LET r == StageRes("policy")
        ps == config.policies
        raising == {j \in 1..Len(ps) : PolicyRaises(ps[j], Text, Context)}
    IN raising # {} =>
         /\ ~IsThrow(r)
         /\ ~IsThrow(result)
         /\ ~r.passed
         /\ Cardinality({i \in 1..Len(r.violations) : r.violations[i].code = "POLICY_ERROR"})
              = Cardinality(raising)
         /\ {invoked[i].policy : i \in 1..Len(invoked)} = 1..Len(ps)
         /\ (Len(ps) = 2 /\ raising = {1} /\ PolicyPasses(ps[2], Text, Context)) =>
              /\ Len(r.violations) = 1
              /\ r.violations[1].code = "POLICY_ERROR"
              /\ DeniedWith(result, "POLICY_VIOLATION")

\* The first of two policies raised, the second passed, and the call returned
\* one violation.
C6_Witness ==
  /\ IsModeration
  /\ Ran("policy")
  /\ Len(config.policies) = 2
  /\ PolicyRaises(config.policies[1], Text, Context)
  /\ PolicyPasses(config.policies[2], Text, Context)
  /\ Len(invoked) = 2
  /\ Len(StageRes("policy").violations) = 1

\* The indices of the policies that do not pass, in configuration order.
FailingPolicies ==
  SelectSeq([j \in 1..Len(config.policies) |-> j],
            LAMBDA j : ~PolicyPasses(config.policies[j], Text, Context))

PolicyName(policy) == IF policy.name # "" THEN policy.name ELSE "unnamed"

\* C7: applyPolicies calls every configured policy once, in configuration
\* order, with the text and the context ("input" from moderateInput, "output"
\* from moderateOutput), whatever the earlier ones returned; it returns
\* passed = false, coded POLICY_VIOLATION, exactly when some policy failed, with
\* one violation per failing policy, in configuration order.
C7_AllPoliciesEvaluated ==
  (IsModeration /\ Ran("policy") /\ WellFormedPolicies) =>
    LET r == StageRes("policy")
        ps == config.policies
    IN /\ invoked = [j \in 1..Len(ps) |-> [policy |-> j, content |-> Text, context |-> Context]]
       /\ r.passed <=> FailingPolicies = <<>>
       /\ ~r.passed =>
            /\ r.code = "POLICY_VIOLATION"
            /\ Len(r.violations) = Len(FailingPolicies)
            /\ \A i \in 1..Len(r.violations) :
                 r.violations[i].policy = PolicyName(ps[FailingPolicies[i]])

\* Two policies failed, the first of them not the last of the list, and a
\* later one was still called; once from moderateOutput.
C7_Witness ==
  /\ op = "moderateOutput"
  /\ Ran("policy")
  /\ Len(FailingPolicies) >= 2
  /\ Len(invoked) = Len(config.policies)
  /\ invoked[Len(invoked)].context = "output"
  /\ StageRes("policy").violations[2].policy # StageRes("policy").violations[1].policy

\* The allow list is in force.
AllowListOn == ~config.allowedPatterns.null /\ Len(config.allowedPatterns.items) > 0

\* C8: with enableContentFilter on and no blocked pattern matching, when
\* allowedPatterns is configured and not empty checkBlockedPatterns reports
\* blocked = false exactly when the text matches an allowed pattern, and
\* NOT_ALLOWED_PATTERN otherwise; when allowedPatterns is absent or empty the
\* text is not blocked.
C8_AllowedGate ==
  (/\ IsModeration
   /\ Ran("pattern")
   /\ ~IsThrow(StageRes("pattern"))
   /\ config.enableContentFilter
   /\ ~AnyMatches(config.blockedPatterns, Text)) =>
    LET r == StageRes("pattern")
    IN IF AllowListOn
         THEN /\ ~r.blocked <=> AnyMatches(config.allowedPatterns.items, Text)
              /\ r.blocked => r.code = "NOT_ALLOWED_PATTERN"
         ELSE ~r.blocked

\* The first pattern of blockedPatterns that the text matches.
FirstBlocked == Min({j \in 1..Len(config.blockedPatterns) : Matches(config.blockedPatterns[j], Text)})

\* C9: a text that matches a blocked pattern is reported blocked with
\* BLOCKED_PATTERN, whether or not it matches an allowed pattern, and the
\* pattern reported is the source of the first pattern of blockedPatterns that
\* the text matches.
C9_BlockedFirst ==
  (/\ IsModeration
   /\ Ran("pattern")
   /\ ~IsThrow(StageRes("pattern"))
   /\ config.enableContentFilter
   /\ AnyMatches(config.blockedPatterns, Text)) =>
    LET r == StageRes("pattern")
    IN /\ r.blocked
       /\ r.code = "BLOCKED_PATTERN"
       /\ r.pattern = PatternToString(config.blockedPatterns[FirstBlocked])

\* The backend calls that this step started.
Forwarded == {call \in pending' : \A earlier \in pending : earlier.rid # call.rid}

\* The assistant contents that this step wrote to a caller.
Returned ==
  {sent'[j].content : j \in {k \in 1..Len(sent') :
                               /\ sent' # sent
                               /\ sent'[k].kind \in {"message", "chunk", "chunk done"}}}

\* The assistant contents that this step pushed onto a history.
Stored ==
  {conversations'[id].messages[Len(conversations'[id].messages)].content :
     id \in {c \in DOMAIN conversations' \cap DOMAIN conversations :
               /\ Len(conversations'[c].messages) > Len(conversations[c].messages)
               /\ conversations'[c].messages[Len(conversations'[c].messages)].role
                    = "assistant"}}

\* The engine's call of this step was fn(content) and it allowed the content.
PassedThrough(fn, content) ==
  /\ op' = fn
  /\ arg' = content
  /\ Has(result', "allowed")
  /\ result'.allowed

\* C5: a chat handler of the server (POST /chat, POST /chat/simple, a WebSocket
\* chat message) that forwards a user message to the backend has passed it
\* through moderateInput and had it allowed, and a handler that returns an
\* assistant message to its caller or stores it in a history has passed it
\* through moderateOutput and had it allowed.
C5_ServerModerates ==
  [][/\ \A call \in Forwarded : PassedThrough("moderateInput", call.message)
     /\ \A content \in Returned \cup Stored : PassedThrough("moderateOutput", content)]_vars

\* What validateInput reported in the last moderateInput call: "VALID" or a code.
ValidatorCode ==
  IF StageRes("validator").valid THEN "VALID" ELSE StageRes("validator").code

\* The length boundaries of validateInput, for the string of the last call.
LengthBoundaries ==
  LET n == Len(arg.chars)
  IN /\ (~Blank(arg.chars) /\ n \in {config.minMessageLength, config.maxMessageLength}) =>
          ValidatorCode = "VALID"
     /\ n = config.maxMessageLength + 1 => ValidatorCode = "MESSAGE_TOO_LONG"
     /\ n = config.minMessageLength - 1 => ValidatorCode = "MESSAGE_TOO_SHORT"

\* C11 as stated: for any configured minMessageLength and maxMessageLength, a
\* string that is not blank and whose length is exactly one of the two is
\* valid, a string one longer than maxMessageLength is MESSAGE_TOO_LONG and a
\* string one shorter than minMessageLength is MESSAGE_TOO_SHORT.
C11_AnyBounds ==
  (op = "moderateInput" /\ IsString(arg)) => LengthBoundaries

\* C11: the same, for a configuration whose minMessageLength is not greater
\* than its maxMessageLength (a minMessageLength of 0 included).
C11_InclusiveBounds ==
  (/\ op = "moderateInput"
   /\ IsString(arg)
   /\ config.minMessageLength <= config.maxMessageLength) => LengthBoundaries

\* A string of exactly maxMessageLength characters, which is also
\* minMessageLength, was found valid.
C11_Witness ==
  /\ op = "moderateInput"
  /\ IsString(arg)
  /\ ~Blank(arg.chars)
  /\ Len(arg.chars) = config.maxMessageLength
  /\ Len(arg.chars) = config.minMessageLength
  /\ ValidatorCode = "VALID"

\* C12: with enableOutputModeration off, moderateOutput returns exactly
\* {allowed: true} for every value, calls no policy predicate, logs nothing,
\* runs no stage and leaves every RegExp object as it was.
C12_OutputBypass ==
  [][(op' = "moderateOutput" /\ ~config'.enableOutputModeration) =>
       /\ result' = [allowed |-> TRUE]
       /\ invoked' = <<>>
       /\ logged' = <<>>
       /\ trace' = <<>>
       /\ lastIndex' = lastIndex]_vars

\* With output moderation off, a text longer than maxResponseLength that
\* matches a blocked pattern and fails a policy was allowed.
C12_Witness ==
  /\ op = "moderateOutput"
  /\ ~config.enableOutputModeration
  /\ IsString(arg)
  /\ Len(arg.chars) > config.maxResponseLength
  /\ config.enableContentFilter
  /\ AnyMatches(config.blockedPatterns, arg.chars)
  /\ \E j \in 1..Len(config.policies) : ~PolicyPasses(config.policies[j], arg.chars, "output")
  /\ result = [allowed |-> TRUE]

\* The order of the stages of moderateOutput.
OutputStageOrder == <<"length", "pattern", "policy">>

\* The codes with which a stage of moderateOutput denies.
OutputStageCodes(name) ==
  CASE name = "length" -> {"RESPONSE_TOO_LONG"}
    [] name = "pattern" -> {"BLOCKED_PATTERN", "NOT_ALLOWED_PATTERN"}
    [] name = "policy" -> {"POLICY_VIOLATION"}

\* The last moderateOutput call ran a prefix of length, pattern, policy, no
\* stage before the last one failed, a denial carries a code of the last stage
\* run and an allowance follows three stages without a failure.
OutputStagesInOrder ==
  /\ Len(trace) \in 1..Len(OutputStageOrder)
  /\ \A j \in 1..Len(trace) : trace[j].stage = OutputStageOrder[j]
  /\ \A j \in 1..(Len(trace) - 1) : ~trace[j].failed
  /\ Denied(result) =>
       /\ trace[Len(trace)].failed
       /\ result.code \in OutputStageCodes(trace[Len(trace)].stage)
  /\ (IsVerdict(result) /\ result.allowed) =>
       /\ Len(trace) = Len(OutputStageOrder)
       /\ ~trace[Len(trace)].failed
  /\ Len(arg.chars) > config.maxResponseLength <=> DeniedWith(result, "RESPONSE_TOO_LONG")

\* The text is not too long for a response, matches no blocked pattern, passes
\* the allow list and passes every policy as an output.
NoOutputViolation(chars) ==
  /\ Len(chars) <= config.maxResponseLength
  /\ config.enableContentFilter =>
       /\ ~AnyMatches(config.blockedPatterns, chars)
       /\ (config.allowedPatterns.null \/ Len(config.allowedPatterns.items) = 0
             \/ AnyMatches(config.allowedPatterns.items, chars))
  /\ \A j \in 1..Len(config.policies) : PolicyPasses(config.policies[j], chars, "output")

\* The text matches a profanity pattern or a harmful-content pattern.
ProfaneOrHarmful(chars) ==
  AnyMatches(profanityPatterns, chars) \/ AnyMatches(harmfulPatterns, chars)

\* C13: with enableOutputModeration on, moderateOutput runs the three stages
\* length, pattern filter, policy engine in this order, the first failure
\* deciding the code, and a text whose only issue is a match of a profanity or
\* harmful-content pattern is allowed.
C13_OutputStages ==
  (op = "moderateOutput" /\ config.enableOutputModeration /\ IsString(arg)) =>
    /\ OutputStagesInOrder
    /\ (ProfaneOrHarmful(Text) /\ NoOutputViolation(Text)) => result = [allowed |-> TRUE]

\* The order of the stages alone, as moderateOutput ran them.
OutputStageOrderHolds ==
  (op = "moderateOutput" /\ config.enableOutputModeration /\ IsString(arg)) =>
    OutputStagesInOrder

\* C14: configure(options) leaves every configuration field that options does
\* not name as it was and gives every field it names the supplied value; a
\* profanityPatterns or harmfulPatterns it names becomes the whole pattern set,
\* and the profanity and harmful-content checks of the calls that follow find
\* only what the current sets match.
C14_ConfigureMerge ==
  [][/\ op' = "configure" =>
          /\ DOMAIN config' = DOMAIN config \cup DOMAIN arg'
          /\ \A f \in DOMAIN config' :
               config'[f] = IF Has(arg', f) THEN arg'[f] ELSE config[f]
          /\ profanityPatterns' =
               IF Has(arg', "profanityPatterns") THEN arg'.profanityPatterns
               ELSE profanityPatterns
          /\ harmfulPatterns' =
               IF Has(arg', "harmfulPatterns") THEN arg'.harmfulPatterns
               ELSE harmfulPatterns
     /\ op' = "moderateInput" =>
          /\ UNCHANGED <<profanityPatterns, harmfulPatterns>>
          /\ Ran("profanity")' =>
               /\ StageRes("profanity")'.hasProfanity =>
                    (config.enableProfanityFilter /\ AnyMatches(profanityPatterns, arg'.chars))
               /\ (config.enableProfanityFilter
                     /\ AnyMatches(SelectSeq(profanityPatterns, LAMBDA pat : pat.kind = "regex"),
                                   arg'.chars)) =>
                    StageRes("profanity")'.hasProfanity
          /\ (Ran("harmful")' /\ ~IsThrow(StageRes("harmful")')) =>
               (StageRes("harmful")'.isHarmful =>
                  (config.enableContentFilter /\ AnyMatches(harmfulPatterns, arg'.chars)))]_vars

\* After configure replaced the profanity patterns, a text that only the
\* replaced pattern matches was found free of profanity.
C14_Witness ==
  /\ op = "moderateInput"
  /\ nConfigure > 0
  /\ profanityPatterns # DefaultProfanityPatterns
  /\ config.enableProfanityFilter
  /\ IsString(arg)
  /\ AnyMatches(DefaultProfanityPatterns, arg.chars)
  /\ Ran("profanity")
  /\ ~StageRes("profanity").hasProfanity

\* The record has the fields of a violation record.
IsViolationRecord(rec) == DOMAIN rec = {"timestamp", "type", "details"}

\* C15: a moderateInput or moderateOutput call that returns allowed = false,
\* whatever its code, logs a violation record when logViolations is on, and no
\* call logs a record when logViolations is off.
C15_DenialsLogged ==
  IsModeration =>
    /\ \A j \in 1..Len(logged) : IsViolationRecord(logged[j])
    /\ (Denied(result) /\ config.logViolations) => logged # <<>>
    /\ ~config.logViolations => logged = <<>>

\* C16: whether or not console.warn raises when a violation record is handed
\* to it, moderateInput and moderateOutput return the verdict they return with
\* a console that works.
C16_LogFailureIsolated ==
  [][/\ op' = "moderateInput" =>
          result' = moderateInput(Host(config, "works"), profanityPatterns, harmfulPatterns,
                                  lastIndex, arg').result
     /\ op' = "moderateOutput" =>
          result' = moderateOutput(Host(config, "works"), lastIndex, arg').result]_vars

\* The denial codes of the specification.
Taxonomy ==
  {"INVALID_TYPE", "MESSAGE_TOO_SHORT", "MESSAGE_TOO_LONG", "EMPTY_MESSAGE",
   "BLOCKED_PATTERN", "NOT_ALLOWED_PATTERN", "PROFANITY_DETECTED", "HARMFUL_CONTENT",
   "POLICY_VIOLATION", "POLICY_ERROR", "RESPONSE_TOO_LONG"}

\* C17: a verdict of moderateInput or moderateOutput is exactly {allowed: true},
\* or has allowed = false, a code of the taxonomy and an action equal to the
\* configured violationAction.
C17_VerdictShape ==
  (IsModeration /\ IsVerdict(result)) =>
    IF result.allowed THEN result = [allowed |-> TRUE]
    ELSE /\ Has(result, "code")
         /\ result.code \in Taxonomy
         /\ Has(result, "action")
         /\ result.action = config.violationAction

\* C18: for every value and whatever the policies return, moderateInput and
\* moderateOutput return a verdict, a denial carrying a code of the taxonomy;
\* neither raises.
C18_NoExceptions ==
  IsModeration =>
    /\ ~IsThrow(result)
    /\ IsVerdict(result)
    /\ Denied(result) => (Has(result, "code") /\ result.code \in Taxonomy)

\* moderateInput does not raise, whatever the policies return.
C18_NoExceptionsInput ==
  op = "moderateInput" => ~IsThrow(result)

\* The options name a pattern list with a string that is no regular expression.
Malformed(options) ==
  \/ Has(options, "blockedPatterns")
       /\ \E j \in 1..Len(options.blockedPatterns) : ~ValidSyntax(options.blockedPatterns[j])
  \/ Has(options, "allowedPatterns")
       /\ \E j \in 1..Len(options.allowedPatterns.items) :
            ~ValidSyntax(options.allowedPatterns.items[j])

\* C19: the constructor and configure raise at once when given a pattern with
\* invalid syntax, and no moderateInput or moderateOutput call raises because
\* of a pattern.
C19_MalformedAtConfigure ==
  /\ (op \in {"new", "configure"} /\ Malformed(arg)) => IsThrow(result)
  /\ IsModeration => result # Threw("SyntaxError")

\* No moderation call raises a SyntaxError.
NoSyntaxErrorLater == IsModeration => result # Threw("SyntaxError")

\* A predicate of the last call called configure.
Reentered ==
  \E j \in 1..Len(invoked) :
    Has(PolicyCall(config.policies[invoked[j].policy].beh,
                   invoked[j].content, invoked[j].context), "configure")

\* C20: a moderateInput or moderateOutput call attaches to its verdict the
\* violationAction of the configuration in force when the call started and logs
\* according to the logViolations of that configuration, whatever configure
\* calls its policy predicates make while it runs.
C20_ConfigureAffectsLaterCalls ==
  [][IsModeration' =>
       /\ Has(result', "action") => result'.action = config.violationAction
       /\ (Has(result', "allowed") /\ ~result'.allowed /\ Has(result', "action")
             /\ config.logViolations) => logged' # <<>>]_vars

\* A call whose predicate called configure has returned a policy verdict.
ReenteredCall ==
  /\ IsModeration
  /\ Reentered
  /\ Has(result, "code")
  /\ result.code = "POLICY_VIOLATION"

\* C21: a moderateInput or moderateOutput call leaves the engine state that a
\* later verdict depends on as it was: the pattern sets, the lastIndex of every
\* RegExp object and, unless one of its predicates called configure, the
\* configuration.
C21_NoMutableState ==
  [][IsModeration' =>
       /\ UNCHANGED <<profanityPatterns, harmfulPatterns, lastIndex>>
       /\ ~Reentered' => UNCHANGED config]_vars

\* The same, the lastIndex of the RegExp objects left out.
ModerationKeepsConfiguration ==
  [][IsModeration' =>
       /\ UNCHANGED <<profanityPatterns, harmfulPatterns>>
       /\ ~Reentered' => UNCHANGED config]_vars

ContentFilterCodes == {"BLOCKED_PATTERN", "NOT_ALLOWED_PATTERN", "HARMFUL_CONTENT"}

\* C22: a moderateInput or moderateOutput call made with enableContentFilter
\* false gets blocked = false from checkBlockedPatterns and isHarmful = false
\* from checkHarmfulContent, which touch no RegExp object, and does not return
\* BLOCKED_PATTERN, NOT_ALLOWED_PATTERN or HARMFUL_CONTENT.
C22_ContentFilterToggle ==
  [][(IsModeration' /\ ~config.enableContentFilter) =>
       /\ Ran("pattern")' => StageRes("pattern")' = [blocked |-> FALSE]
       /\ Ran("harmful")' => StageRes("harmful")' = [isHarmful |-> FALSE]
       /\ Has(result', "code") => result'.code \notin ContentFilterCodes
       /\ UNCHANGED lastIndex]_vars

\* With enableContentFilter false, a text that a blocked pattern and a harmful
\* pattern match went through both checks and was allowed.
C22_Witness ==
  /\ op = "moderateInput"
  /\ ~config.enableContentFilter
  /\ IsString(arg)
  /\ AnyMatches(config.blockedPatterns, Text)
  /\ AnyMatches(harmfulPatterns, Text)
  /\ Ran("pattern")
  /\ Ran("harmful")
  /\ result = [allowed |-> TRUE]

\* The violation entry that the claim gives the failing policy for what its
\* predicate returned: ret is a boolean false or a result object.
CoercedViolation(policy, ret) ==
  IF ret.t = "boolean"
    THEN [policy |-> PolicyName(policy),
          reason |-> IF policy.kind = "object" /\ policy.reason # ""
                       THEN policy.reason ELSE "Policy check failed",
          code |-> "POLICY_VIOLATION"]
  ELSE [policy |-> PolicyName(policy),
        reason |-> Field(ret.v, "reason"),
        code |-> IF Has(ret.v, "code") THEN ret.v.code ELSE "POLICY_VIOLATION"]

\* C23: a policy that returns true, or a result object whose passed is true,
\* gives no violation; one that returns false gives a violation with the
\* generic reason for a function and with the object's reason and name for an
\* object with a check member; one that returns a failing result object gives
\* a violation with the reason and the code of that object.
C23_PolicyCoercion ==
  (IsModeration /\ Ran("policy") /\ WellFormedPolicies) =>
    LET r == StageRes("policy")
        ps == config.policies
    IN /\ r.passed <=> FailingPolicies = <<>>
       /\ ~r.passed =>
            /\ Len(r.violations) = Len(FailingPolicies)
            /\ \A i \in 1..Len(FailingPolicies) :
                 ~PolicyRaises(ps[FailingPolicies[i]], Text, Context) =>
                   r.violations[i] =
                     CoercedViolation(ps[FailingPolicies[i]],
                                      PolicyCall(ps[FailingPolicies[i]].beh, Text, Context))

\* One call in which an object policy with a reason returned false and a
\* function policy returned a failing result object with a code.
C23_Witness ==
  /\ IsModeration
  /\ Ran("policy")
  /\ WellFormedPolicies
  /\ \E i \in 1..Len(FailingPolicies) :
       LET policy == config.policies[FailingPolicies[i]]
       IN /\ policy.kind = "object"
          /\ policy.reason # ""
          /\ PolicyCall(policy.beh, Text, Context).t = "boolean"
          /\ StageRes("policy").violations[i].reason = policy.reason
  /\ \E i \in 1..Len(FailingPolicies) :
       LET ret == PolicyCall(config.policies[FailingPolicies[i]].beh, Text, Context)
       IN /\ ret.t = "object"
          /\ Has(ret.v, "code")
          /\ StageRes("policy").violations[i].code = ret.v.code

\* Every occurrence in s of the patterns of pats, pattern by pattern and from
\* left to right within a pattern, each pattern read as the specification
\* reads it.
RECURSIVE Occurrences(_, _, _)
Occurrences(pats, s, j) ==
  IF j > Len(pats) THEN <<>>
  ELSE GlobalMatches(Compiled(pats[j]), s, 0) \o Occurrences(pats, s, j + 1)

\* The index of the first element of seq that equals x.
FirstIndex(seq, x) == Min({j \in 1..Len(seq) : seq[j] = x})

\* m lists each distinct element of occ once, in the order of first occurrence.
DistinctFirstSeen(m, occ) ==
  /\ {m[j] : j \in 1..Len(m)} = {occ[j] : j \in 1..Len(occ)}
  /\ \A i, j \in 1..Len(m) : i < j => FirstIndex(occ, m[i]) < FirstIndex(occ, m[j])

\* C24: with enableProfanityFilter on, checkProfanity reports hasProfanity =
\* true, coded PROFANITY_DETECTED, exactly when some profanity pattern occurs in
\* the text, and its matches are the distinct occurrences of all patterns, each
\* once, as written in the text, in first-seen order; with the filter off it
\* reports hasProfanity = false.
C24_ProfanityMatches ==
  (op = "moderateInput" /\ Ran("profanity")) =>
    LET r == StageRes("profanity")
        occ == Occurrences(profanityPatterns, Text, 1)
    IN IF config.enableProfanityFilter
         THEN /\ r.hasProfanity <=> occ # <<>>
              /\ r.hasProfanity =>
                   /\ r.code = "PROFANITY_DETECTED"
                   /\ DistinctFirstSeen(r.matches, occ)
         ELSE r = [hasProfanity |-> FALSE]

\* The same for profanity patterns that are RegExp objects with the g flag.
ProfanityMatchesOfGlobalRegExps ==
  (\A j \in 1..Len(profanityPatterns) :
     profanityPatterns[j].kind = "regex" /\ profanityPatterns[j].g) =>
    C24_ProfanityMatches

\* A pattern list with every string replaced by the RegExp object that the
\* specification reads it as.
CompiledAll(pats) == [j \in 1..Len(pats) |-> Compiled(pats[j])]

\* The configuration with its blocked and allowed patterns compiled.
CompiledConfig(cfg) ==
  [cfg EXCEPT !.blockedPatterns = CompiledAll(cfg.blockedPatterns),
              !.allowedPatterns = [cfg.allowedPatterns EXCEPT
                                     !.items = CompiledAll(cfg.allowedPatterns.items)]]

\* No pattern of the engine is a string with invalid syntax.
AllValidSyntax ==
  \A pats \in {config.blockedPatterns, config.allowedPatterns.items,
               profanityPatterns, harmfulPatterns} :
    \A j \in 1..Len(pats) : pats[j].kind = "string" => ValidSyntax(pats[j])

\* The stages of a call and whether each failed.
StagesRun(t) == [j \in 1..Len(t) |-> <<t[j].stage, t[j].failed>>]

\* C25: in each pattern list a string gives the check results of the RegExp
\* object with the flags g and i compiled from it: every moderateInput call
\* returns what the same call returns on the engine whose string patterns are
\* replaced by those RegExp objects, their lastIndex at 0.
C25_StringPatternEquivalence ==
  [][(op' = "moderateInput" /\ AllValidSyntax) =>
       LET same == moderateInput(Host(CompiledConfig(config), "works"),
                                 CompiledAll(profanityPatterns),
                                 CompiledAll(harmfulPatterns),
                                 lastIndex, arg')
       IN /\ result' = same.result
          /\ StagesRun(trace') = StagesRun(same.trace)]_vars

\* The same for engines whose profanity and harmful patterns are RegExp
\* objects: strings among the blocked and allowed patterns only.
BlockedAllowedStringEquivalence ==
  [][(/\ op' = "moderateInput"
      /\ AllValidSyntax
      /\ \A pats \in {profanityPatterns, harmfulPatterns} :
           \A j \in 1..Len(pats) : pats[j].kind = "regex") =>
       LET same == moderateInput(Host(CompiledConfig(config), "works"),
                                 profanityPatterns, harmfulPatterns, lastIndex, arg')
       IN /\ result' = same.result
          /\ StagesRun(trace') = StagesRun(same.trace)]_vars

\* The defaults of the configuration fields, as documented.
DocumentedDefaults ==
  [maxMessageLength |-> DefaultMaxMessageLength,
   minMessageLength |-> DefaultMinMessageLength,
   enableContentFilter |-> TRUE,
   blockedPatterns |-> <<>>,
   allowedPatterns |-> NullList,
   enableProfanityFilter |-> TRUE,
   enableOutputModeration |-> TRUE,
   maxResponseLength |-> DefaultMaxResponseLength,
   policies |-> <<>>,
   logViolations |-> TRUE,
   violationAction |-> "reject"]

\* The fields of options that are no documented configuration field and no
\* pattern set.
ExtraFields(options) ==
  DOMAIN options \ (DOMAIN DocumentedDefaults \cup {"profanityPatterns", "harmfulPatterns"})

\* C26: after new Guardrails(options) every field that options omits has its
\* documented default and every field that options has, known or not, has the
\* supplied value; afterwards a configuration field changes only when a
\* configure call names it, so an extra field stays in the configuration.
C26_ConstructorDefaults ==
  /\ op = "new" =>
       /\ DOMAIN config = DOMAIN DocumentedDefaults \cup DOMAIN arg
       /\ \A f \in DOMAIN config :
            config[f] = IF Has(arg, f) THEN arg[f] ELSE DocumentedDefaults[f]
  /\ [][\A f \in DOMAIN config :
          /\ Has(config', f)
          /\ config'[f] # config[f] =>
               \/ op' = "configure" /\ Has(arg', f)
               \/ IsModeration' /\ Reentered' /\ Has(ReconfigureOptions, f)]_vars

\* An engine constructed with an extra field was reconfigured by options that
\* do not name it, and the field is still there.
C26_Witness ==
  /\ op = "configure"
  /\ ExtraFields(arg) = {}
  /\ ExtraFields(config) # {}
  /\ \A f \in ExtraFields(config) : config[f] = "acme"
  /\ config.logViolations = FALSE

\* The accepted timestamps recorded for id.
Stamps(limits, id) == IF id \in DOMAIN limits THEN limits[id] ELSE <<>>

\* Those of stamps that lie in the window that ends at t.
StampsInWindow(stamps, t) == SelectSeq(stamps, LAMBDA x : t - x < WindowMs)

\* This step let a chat message of id through to the backend.
ChatAccepted(id) ==
  \E call \in Forwarded : call.conv = id /\ call.route \in {"chat", "stream", "ws"}

\* This step rejected a chat message of id for its rate.
ChatRateLimited(id) ==
  /\ requests' # requests
  /\ \E j \in 1..Len(sent') :
       /\ sent'[j].to = id
       /\ sent'[j].kind \in {"429", "error: Rate limit exceeded"}

\* C27: for every id, no window of WindowMs milliseconds holds more than
\* rateLimit accepted chat messages; a chat message is let through to the
\* backend only when fewer than rateLimit were accepted in the window that ends
\* with it, and is then recorded; it is rejected only when rateLimit were; and
\* an accepted message is forgotten only when it has left the window.
C27_RateLimit ==
  /\ [](\A id \in DOMAIN rateLimits :
          \A j \in 1..Len(rateLimits[id]) :
            Cardinality({k \in 1..Len(rateLimits[id]) :
                           /\ rateLimits[id][k] >= rateLimits[id][j]
                           /\ rateLimits[id][k] - rateLimits[id][j] < WindowMs})
              <= serverConfig.rateLimit)
  /\ [][\A id \in 1..MaxUuids :
          LET before == StampsInWindow(Stamps(rateLimits, id), now')
          IN /\ ChatAccepted(id) =>
                  /\ Len(before) < serverConfig.rateLimit
                  /\ Stamps(rateLimits', id) = Append(before, now')
             /\ ChatRateLimited(id) =>
                  /\ Len(before) >= serverConfig.rateLimit
                  /\ ~ChatAccepted(id)
             /\ ~ChatAccepted(id) =>
                  StampsInWindow(Stamps(rateLimits', id), now') = before]_vars

\* Under rateLimit 1 a conversation had a message accepted, and a second one
\* after the window had passed.
C27_Witness ==
  /\ serverConfig.rateLimit = 1
  /\ now = WindowMs
  /\ \E id \in DOMAIN conversations :
       /\ Stamps(rateLimits, id) = <<WindowMs>>
       /\ \E i, j \in 1..Len(conversations[id].messages) :
            /\ conversations[id].messages[i].role = "user"
            /\ conversations[id].messages[i].timestamp = 0
            /\ conversations[id].messages[j].role = "user"
            /\ conversations[id].messages[j].timestamp = WindowMs

\* A chat message was rejected for its rate.
RateLimitedReached ==
  \E j \in 1..Len(sent) : sent[j].kind \in {"429", "error: Rate limit exceeded"}

\* C28: no conversation's stored history has more than maxConversationHistory
\* messages.
C28_HistoryBound ==
  \A id \in DOMAIN conversations :
    Len(conversations[id].messages) <= serverConfig.maxConversationHistory

\* What this step wrote to callers.
Emitted == IF now' # now THEN <<>> ELSE sent'

Kinds(events) == [j \in 1..Len(events) |-> events[j].kind]

\* The WebSocket chats that this step accepted, and those whose handler it
\* finished.
WsStarted == {call \in Forwarded : call.route = "ws"}

WsEnded ==
  {call \in pending : call.route = "ws" /\ \A later \in pending' : later.rid # call.rid}

\* C29: a connection is answered with 'connected', which is sent then only; a
\* WebSocket chat is accepted by the step that sends 'start', gets 'chunk'
\* messages only while its backend call runs, and its handler finishes with one
\* last chunk followed by 'end', whether the call succeeded or failed; 'start'
\* and 'end' are sent on no other occasion; a chat of a session without
\* conversation or over its rate gets 'error' alone, and no 'start'.
C29_WebSocketProtocol ==
  [][/\ sessions' # sessions =>
          \E id \in sessions' \ sessions : Emitted = <<Event(id, "connected", NullValue)>>
     /\ (\E j \in 1..Len(Emitted) : Emitted[j].kind = "connected") => sessions' # sessions
     /\ WsStarted # {} =>
          /\ Cardinality(WsStarted) = 1
          /\ \A call \in WsStarted :
               /\ call.conv \in sessions
               /\ Emitted = <<Event(call.conv, "start", NullValue)>>
     /\ (\E j \in 1..Len(Emitted) : Emitted[j].kind = "start") => WsStarted # {}
     /\ \A j \in 1..Len(Emitted) :
          Emitted[j].kind = "chunk" =>
            /\ \E call \in pending : call.rid = Emitted[j].to
            /\ \E call \in pending' : call.rid = Emitted[j].to
     /\ WsEnded # {} =>
          /\ Cardinality(WsEnded) = 1
          /\ \A call \in WsEnded :
               /\ Kinds(Emitted) \in {<<"chunk done", "end">>, <<"chunk error", "end">>}
               /\ \A j \in 1..Len(Emitted) : Emitted[j].to = call.rid
     /\ (\E j \in 1..Len(Emitted) : Emitted[j].kind = "end") => WsEnded # {}
     /\ \A j \in 1..Len(Emitted) :
          Emitted[j].kind \in {"error: Session not found", "error: Rate limit exceeded"} =>
            /\ Len(Emitted) = 1
            /\ WsStarted = {}
            /\ Emitted[j].to \in sessions
            /\ Emitted[j].kind = "error: Session not found" <=>
                 Emitted[j].to \notin DOMAIN conversations]_vars

\* The backend call of a WebSocket chat failed and its handler still sent
\* 'end' after the last chunk.
C29_Witness ==
  /\ Kinds(sent) = <<"chunk error", "end">>
  /\ \E id \in sessions \cap DOMAIN conversations : Len(conversations[id].messages) > 0

\* Every accepted WebSocket chat gets its 'end', the backend's streams ending.
WsChatEnds ==
  \A rid \in 1..MaxRequests :
    (\E call \in pending : call.rid = rid /\ call.route = "ws")
      ~> (Kinds(sent) \in {<<"chunk done", "end">>, <<"chunk error", "end">>}
            /\ sent[1].to = rid)

\* The last k elements of seq, all of them when it has fewer.
LastN(seq, k) ==
  IF k >= Len(seq) THEN seq ELSE SubSeq(seq, Len(seq) - k + 1, Len(seq))

\* The message list that the claim gives the backend for a chat of the
\* conversation conv, whose history holds the user message already.
ExpectedApiMessages(conv) ==
  LET kept == LastN(conv.messages, serverConfig.maxConversationHistory)
  IN <<[role |-> "system", content |-> conv.systemPrompt]>>
     \o [j \in 1..Len(kept) |-> [role |-> kept[j].role, content |-> kept[j].content]]

\* The chat calls that this step handed to the backend went out with the
\* claimed message list, ending with the user message.
ApiMessagesAsClaimed ==
  \A call \in Forwarded :
    call.route \in {"chat", "stream", "ws"} =>
      /\ call.messages = ExpectedApiMessages(conversations'[call.conv])
      /\ call.messages[Len(call.messages)] = [role |-> "user", content |-> call.message]
      /\ Cardinality({j \in 1..Len(call.messages) : call.messages[j].role = "system"}) = 1

\* C30: the backend of a POST /chat or WebSocket chat gets one system message,
\* the conversation's system prompt, then the last
\* min(n, maxConversationHistory) messages of the history, the last of them
\* the user message just received.
C30_ApiMessages == [][ApiMessagesAsClaimed]_vars

\* The same under a maxConversationHistory of at least 1.
ApiMessagesUnderPositiveLimit ==
  [][serverConfig.maxConversationHistory >= 1 => ApiMessagesAsClaimed]_vars

\* A chat went to the backend from a history longer than
\* maxConversationHistory, cut to its last messages behind the system message.
TruncatedHistorySent ==
  /\ serverConfig.maxConversationHistory >= 1
  /\ \E call \in pending :
       /\ call.route \in {"chat", "stream", "ws"}
       /\ call.conv \in DOMAIN conversations
       /\ Len(conversations[call.conv].messages) > serverConfig.maxConversationHistory
       /\ Len(call.messages) = 1 + serverConfig.maxConversationHistory
       /\ call.messages[1].role = "system"

\* The streamChat calls that this step saw return, and those it left running.
StreamsEnded ==
  {call \in pending : /\ call.route \in {"stream", "ws"}
                      /\ \A later \in pending' : later.rid # call.rid}

StreamsRunning ==
  {call \in pending : /\ call.route \in {"stream", "ws"}
                      /\ \E later \in pending' : later.rid = call.rid}

\* The call as this step left it.
After(call) == CHOOSE later \in pending' : later.rid = call.rid

\* The contents of the onChunk calls with done = false that this step made for
\* the call, concatenated.
RECURSIVE ChunkContents(_, _, _)
ChunkContents(events, rid, j) ==
  IF j > Len(events) THEN <<>>
  ELSE (IF events[j].to = rid /\ events[j].kind = "chunk" THEN events[j].content.chars
        ELSE <<>>) \o ChunkContents(events, rid, j + 1)

DoneKinds == {"chunk done", "chunk error"}

\* C31: streamChat calls onChunk with done = false for chunks with content
\* only, its fullContent being the contents so far in arrival order; it calls
\* onChunk with done = true once, as its last callback, when the stream is over
\* or has failed, on success with that fullContent, which is also the content
\* of the message it returns; and it returns in both cases, so that its caller
\* goes on.
C31_StreamChat ==
  [][/\ \A call \in Forwarded :
          call.route \in {"stream", "ws"} => call.fullContent = <<>>
     /\ \A j \in 1..Len(Emitted) :
          /\ Emitted[j].kind = "chunk" =>
               /\ Emitted[j].content.chars # <<>>
               /\ \E call \in StreamsRunning : call.rid = Emitted[j].to
          /\ Emitted[j].kind \in DoneKinds =>
               \E call \in StreamsEnded : call.rid = Emitted[j].to
     /\ \A call \in StreamsRunning :
          After(call).fullContent
            = call.fullContent \o ChunkContents(Emitted, call.rid, 1)
     /\ \A call \in StreamsEnded :
          /\ Len(Emitted) = 2
          /\ Emitted[1].to = call.rid
          /\ Emitted[1].kind \in DoneKinds
          /\ Emitted[1].kind = "chunk done" =>
               /\ Emitted[1].content = Str(call.fullContent)
               /\ call.conv \in DOMAIN conversations =>
                    LET messages == conversations'[call.conv].messages
                    IN messages[Len(messages)]
                         = [role |-> "assistant", content |-> Str(call.fullContent),
                            timestamp |-> now]
          /\ Emitted[2].kind \in {"end", "done"}]_vars

\* A stream of two chunks with different contents has ended well: the last
\* callback carried both contents, in the order of arrival.
C31_Witness ==
  /\ Len(sent) = 2
  /\ sent[1].kind = "chunk done"
  /\ sent[1].content = Str(<<"k", "d">>)

\* ------------------------------------------------------------------ C32

\* The /chat/simple requests in flight.
SimpleCalls == {call \in pending : call.route = "simple"}

\* The system prompt a /chat/simple request is to be sent with: its own, or
\* the server's configured one when it supplies none.
PromptOf(call) ==
  IF call.systemPrompt # "" THEN call.systemPrompt ELSE serverConfig.systemPrompt

\* The system message is the first of the messages sent to the backend.
SentWithPromptOf(call) ==
  /\ call.messages[1] = [role |-> "system", content |-> PromptOf(call)]
  /\ \A j \in 2..Len(call.messages) : call.messages[j].role # "system"

\* C32: every POST /chat/simple request is sent to the backend with its own
\* system prompt, or with the server's configured one when it supplies none,
\* whatever other /chat/simple requests are in flight; and when no
\* /chat/simple request is in flight the client's system prompt is the
\* configured one.
C32_SystemPromptIsolation ==
  /\ [][\A call \in Forwarded : call.route = "simple" => SentWithPromptOf(call)]_vars
  /\ [](SimpleCalls = {} => clientSystemPrompt = serverConfig.systemPrompt)

\* A request is sent with its own or the configured prompt when no other
\* /chat/simple request is in flight as it arrives.
C32_AloneIsolated ==
  [][\A call \in Forwarded :
       call.route = "simple" /\ SimpleCalls = {} => SentWithPromptOf(call)]_vars

\* The client's system prompt is the configured one when no /chat/simple
\* request is in flight.
C32_PromptRestored == SimpleCalls = {} => clientSystemPrompt = serverConfig.systemPrompt

\* A request that supplies no system prompt is sent with the prompt of another
\* request in flight.
C32_ForeignPromptSent ==
  \E call \in SimpleCalls, other \in SimpleCalls :
    /\ call.systemPrompt = ""
    /\ other.systemPrompt # ""
    /\ call.messages[1].content = other.systemPrompt
    /\ call.messages[1].content # serverConfig.systemPrompt

\* ------------------------------------------------------------------ C33

\* The roles of a history alternate, user first.
Alternates(messages) ==
  \A j \in 1..Len(messages) :
    messages[j].role = (IF j % 2 = 1 THEN "user" ELSE "assistant")

\* The chat requests in flight on the conversation id.
CallsOn(id) == {call \in pending : call.conv = id}

\* C33: in every conversation history the roles strictly alternate user,
\* assistant, so that each assistant message directly follows the user message
\* it answers, under every interleaving of chat requests, backend failures and
\* 'clear' messages, once the requests on the conversation have finished; a
\* history cleared while a request was in flight holds nothing of that request
\* afterwards.
C33_TurnPairing ==
  \A id \in DOMAIN conversations :
    CallsOn(id) = {} => Alternates(conversations[id].messages)

\* Two requests on one conversation, the second received before the first is
\* answered: user, user, then the two answers.
C33_TwoUsersInARow ==
  \E id \in DOMAIN conversations :
    LET messages == conversations[id].messages
    IN /\ CallsOn(id) = {}
       /\ Len(messages) = 4
       /\ messages[1].role = "user" /\ messages[2].role = "user"
       /\ messages[3].role = "assistant" /\ messages[4].role = "assistant"

\* A failed backend call leaves its user message unanswered in the history,
\* and the next request puts a second user message after it.
C33_UnansweredUser ==
  \E id \in DOMAIN conversations :
    LET messages == conversations[id].messages
    IN /\ CallsOn(id) = {}
       /\ Len(messages) = 3
       /\ messages[1].role = "user" /\ messages[2].role = "user"
       /\ messages[3].role = "assistant"

\* The answer to a request received before a 'clear' is stored after it: the
\* cleared history begins with an assistant message.
C33_ReplyAfterClear ==
  \E id \in sessions \cap DOMAIN conversations :
    /\ CallsOn(id) = {}
    /\ Len(conversations[id].messages) >= 1
    /\ conversations[id].messages[1].role = "assistant"

\* ------------------------------------------------------------------ C34

\* This step rejected a chat message for its rate.
RateLimitedStep == \E id \in 1..MaxUuids : ChatRateLimited(id)

\* The histories of the conversations.
Histories(convs) == [id \in DOMAIN convs |-> convs[id].messages]

\* C34: a step that rejects a POST /chat or a WebSocket chat for its rate
\* appends no message to any conversation, creates no conversation, calls the
\* backend for nothing and leaves the recorded timestamps of every id as they
\* were.
C34_RateLimitedChangesNothing ==
  [][RateLimitedStep =>
       /\ DOMAIN conversations' = DOMAIN conversations
       /\ Histories(conversations') = Histories(conversations)
       /\ pending' = pending
       /\ \A id \in 1..MaxUuids : Stamps(rateLimits', id) = Stamps(rateLimits, id)]_vars

\* A rejected chat appends no message to the conversations there were, calls
\* the backend for nothing and leaves the recorded timestamps as they were.
C34_RejectedKeepsHistories ==
  [][RateLimitedStep =>
       /\ \A id \in DOMAIN conversations :
            id \in DOMAIN conversations' /\ conversations'[id] = conversations[id]
       /\ pending' = pending
       /\ \A id \in 1..MaxUuids : Stamps(rateLimits', id) = Stamps(rateLimits, id)]_vars

\* Under a rate limit of at least one message a rejected chat changes nothing
\* but the map of timestamps, where it changes no timestamp.
C34_PositiveLimitChangesNothing ==
  [][RateLimitedStep /\ serverConfig.rateLimit >= 1 =>
       /\ UNCHANGED <<conversations, pending, rateLimits, uuids, clientSystemPrompt>>]_vars

\* Under rateLimit 0 a POST /chat that names no conversation was rejected and
\* left the conversation it had created.
C34_RejectedCreated ==
  /\ serverConfig.rateLimit = 0
  /\ RateLimitedReached
  /\ \E id \in DOMAIN conversations :
       /\ id \notin sessions
       /\ conversations[id].messages = <<>>
       /\ Stamps(rateLimits, id) = <<>>
       /\ id \in DOMAIN rateLimits

====
